---- MODULE Spec2Model ----
(***************************************************************************)
(* NoVault: zero-knowledge client-side encryption.                         *)
(*                                                                         *)
(* The cryptographic core (the Rust/WASM crate imported as "@/pkg/rust")   *)
(* is modelled from its design document; the React handlers and the        *)
(* server actions around it are modelled from their TypeScript source.     *)
(*                                                                         *)
(* Values.  A 32-byte or 12-byte value is an atom [t, v]: t says what the  *)
(* bytes are (nonce, dek, scalar, point, ss, dk, plain, hash) and v which  *)
(* ones.  A blob is what AES-256-GCM produces, or a file's raw bytes.      *)
(***************************************************************************)
EXTENDS Integers, Sequences, FiniteSets, TLC

\* ------------------------------------------------------------------ bounds
MaxFiles == 2      \* encrypted uploads in one run
MaxRaw == 1        \* uploads through the storage bucket test component
MaxPassword == 2   \* passwords are 1..MaxPassword
MaxPlain == 1      \* file contents are 0..MaxPlain (0 is the empty file)
MaxTabs == 2       \* browser tabs the user has the home page open in
MaxSalt == 2       \* e-mail addresses are 1..MaxSalt; 1 is the signed-in user's
MaxDerive == 3     \* identity encryptions after which MasterKeyDeriver is not used
MaxSegments == 6      \* segments of a storage path
MaxInvocations == 3 \* invocations of the core's file cipher in one run
MaxRuns == 2        \* runs of one handler that are followed at a time
MaxInFlight == 1    \* components with a handler run in progress at a time

Passwords == 1..MaxPassword
\* CSPRNG draws in one run: every upload attempt takes four, a setup two
MaxDraws == 4 * MaxFiles + 4
Plaintexts == 0..MaxPlain

\* ------------------------------------------------------------ atoms, blobs
Atom(t, v) == [t |-> t, v |-> v]
NoAtom == Atom("none", 0)

\* lengths in bytes
KeyLength == 32
NonceLength == 12
TagLength == 16
HelloLength == 5

\* file content c is c copies of "hello": 0 is the empty file
byteLength(x) ==
    CASE x.t = "plain" -> HelloLength * x.v
      [] x.t = "nonce" -> NonceLength
      [] x.t = "none" -> 0
      [] x.t = "hex" -> 2 * KeyLength
      [] OTHER -> KeyLength

\* raw file bytes, as a blob that no key produced
RawBlob(content) ==
    [key |-> NoAtom, nonce |-> NoAtom, pt |-> content, flip |-> 0,
     len |-> byteLength(content)]
NoBlob == RawBlob(NoAtom)
IsCiphertext(b) == b.key.t # "none"

\* ---------------------------------------------------------- 4.1 primitives
\* the n-th value drawn after `rng` draws: a CSPRNG never repeats a value
random_bytes(rng, n) == rng + n

sha256(data) == Atom("hash", data.v)

\* as aes256_gcm_encrypt, with the tag kept apart from the ciphertext
aes256_gcm_encrypt_detachedTag(key, nonce, plaintext) ==
    [key |-> key, nonce |-> nonce, pt |-> plaintext, flip |-> 0,
     len |-> byteLength(plaintext)]

\* the output is the ciphertext, as long as the plaintext, with the tag after it
aes256_gcm_encrypt(key, nonce, plaintext) ==
    [key |-> key, nonce |-> nonce, pt |-> plaintext, flip |-> 0,
     len |-> byteLength(plaintext) + TagLength]

\* as aes256_gcm_decrypt, without the tag check (the cipher run as plain CTR)
aes256_gcm_decrypt_unauthenticated(key, nonce, ciphertext_with_tag) ==
    IF ciphertext_with_tag.key = key /\ ciphertext_with_tag.nonce = nonce
    THEN [ok |-> TRUE, pt |-> ciphertext_with_tag.pt]
    ELSE [ok |-> FALSE, pt |-> NoAtom]

\* authenticated: the tag verifies only under the key and nonce that made it
aes256_gcm_decrypt(key, nonce, ciphertext_with_tag) ==
    IF /\ ciphertext_with_tag.key = key
       /\ ciphertext_with_tag.nonce = nonce
       /\ ciphertext_with_tag.flip = 0
    THEN [ok |-> TRUE, pt |-> ciphertext_with_tag.pt]
    ELSE [ok |-> FALSE, pt |-> NoAtom]

\* X25519 as exponentiation in the subgroup of prime order GroupOrder of the
\* integers modulo GroupPrime = 2 * GroupOrder + 1
GroupOrder == 83
GroupPrime == 167
GroupBase == 4

RECURSIVE PowMod(_, _)
PowMod(b, e) == IF e = 0 THEN 1 ELSE (b * PowMod(b, e - 1)) % GroupPrime

x25519_public(scalar) == Atom("point", PowMod(GroupBase, scalar.v))
x25519_diffie_hellman(scalar, peer_point) == Atom("ss", PowMod(peer_point.v, scalar.v))

\* ------------------------------------------------------ 4.2 key derivation
\* Argon2id with fixed parameters: a function of (password, salt) only
derive_key(password, salt) == Atom("dk", password * 100 + salt.v)

\* ------------------------------------- 4.3 identity & master-secret manager
\* as setup_identity, with a constant nonce
setup_identity_fixedNonce(rng, password, salt) ==
    LET derived_key == derive_key(password, salt)
        scalar == Atom("scalar", random_bytes(rng, 1))
        nonce == Atom("nonce", 0)
    IN  [public_key |-> x25519_public(scalar),
         encrypted_private_key |-> aes256_gcm_encrypt(derived_key, nonce, scalar),
         nonce |-> nonce,
         salt |-> salt]

\* as setup_identity, with the scalar encrypted as its hex text
setup_identity_hexScalar(rng, password, salt) ==
    LET derived_key == derive_key(password, salt)
        scalar == Atom("scalar", random_bytes(rng, 1))
        nonce == Atom("nonce", random_bytes(rng, 2))
    IN  [public_key |-> x25519_public(scalar),
         encrypted_private_key |->
             aes256_gcm_encrypt(derived_key, nonce, Atom("hex", scalar.v)),
         nonce |-> nonce,
         salt |-> salt]

\* draws: 1 the private scalar, 2 the nonce
setup_identity(rng, password, salt) ==
    LET derived_key == derive_key(password, salt)
        scalar == Atom("scalar", random_bytes(rng, 1))
        nonce == Atom("nonce", random_bytes(rng, 2))
    IN  [public_key |-> x25519_public(scalar),
         encrypted_private_key |-> aes256_gcm_encrypt(derived_key, nonce, scalar),
         nonce |-> nonce,
         salt |-> salt]

unlock_identity(password, salt, encrypted_private_key, nonce) ==
    LET r == aes256_gcm_decrypt(derive_key(password, salt), nonce, encrypted_private_key)
    IN  IF r.ok THEN [ok |-> TRUE, err |-> "", key |-> r.pt]
        ELSE [ok |-> FALSE, err |-> "WrongPasswordOrCorrupted", key |-> NoAtom]

\* ------------------------------------------------- 4.4 hybrid file cipher
\* as encrypt_file, with one ephemeral key pair kept for every file
encrypt_file_cachedEphemeral(rng, plaintext, recipient_public_key) ==
    LET dek == Atom("dek", random_bytes(rng, 1))
        file_nonce == Atom("nonce", random_bytes(rng, 2))
        ephemeral_scalar == Atom("scalar", random_bytes(0, 3))
        shared_secret == x25519_diffie_hellman(ephemeral_scalar, recipient_public_key)
        dek_nonce == Atom("nonce", random_bytes(rng, 4))
    IN  [encrypted_file_body |-> aes256_gcm_encrypt(dek, file_nonce, plaintext),
         file_nonce |-> file_nonce,
         encrypted_dek |-> aes256_gcm_encrypt(shared_secret, dek_nonce, dek),
         dek_nonce |-> dek_nonce,
         ephemeral_public_key |-> x25519_public(ephemeral_scalar)]

\* draws: 1 the DEK, 2 the file nonce, 3 the ephemeral scalar, 4 the DEK nonce
encrypt_file(rng, plaintext, recipient_public_key) ==
    LET dek == Atom("dek", random_bytes(rng, 1))
        file_nonce == Atom("nonce", random_bytes(rng, 2))
        ephemeral_scalar == Atom("scalar", random_bytes(rng, 3))
        shared_secret == x25519_diffie_hellman(ephemeral_scalar, recipient_public_key)
        dek_nonce == Atom("nonce", random_bytes(rng, 4))
    IN  [encrypted_file_body |-> aes256_gcm_encrypt(dek, file_nonce, plaintext),
         file_nonce |-> file_nonce,
         encrypted_dek |-> aes256_gcm_encrypt(shared_secret, dek_nonce, dek),
         dek_nonce |-> dek_nonce,
         ephemeral_public_key |-> x25519_public(ephemeral_scalar)]

\* as decrypt_file, with the body decrypted and reported first
decrypt_file_bodyFirst(envelope, recipient_private_key) ==
    LET shared_secret == x25519_diffie_hellman(recipient_private_key,
                                               envelope.ephemeral_public_key)
        unwrap == aes256_gcm_decrypt(shared_secret, envelope.dek_nonce,
                                     envelope.encrypted_dek)
        body == aes256_gcm_decrypt(unwrap.pt, envelope.file_nonce,
                                   envelope.encrypted_file_body)
    IN  IF ~body.ok
        THEN [ok |-> FALSE, err |-> "ContentDecryptFailed", pt |-> NoAtom,
              steps |-> <<"dh", "unwrap", "body">>]
        ELSE IF ~unwrap.ok
        THEN [ok |-> FALSE, err |-> "KeyUnwrapFailed", pt |-> NoAtom,
              steps |-> <<"dh", "unwrap", "body">>]
        ELSE [ok |-> TRUE, err |-> "", pt |-> body.pt,
              steps |-> <<"dh", "unwrap", "body">>]

\* steps lists the primitive calls made, in order
decrypt_file(envelope, recipient_private_key) ==
    LET shared_secret == x25519_diffie_hellman(recipient_private_key,
                                               envelope.ephemeral_public_key)
        unwrap == aes256_gcm_decrypt(shared_secret, envelope.dek_nonce,
                                     envelope.encrypted_dek)
        body == aes256_gcm_decrypt(unwrap.pt, envelope.file_nonce,
                                   envelope.encrypted_file_body)
    IN  IF ~unwrap.ok
        THEN [ok |-> FALSE, err |-> "KeyUnwrapFailed", pt |-> NoAtom,
              steps |-> <<"dh", "unwrap">>]
        ELSE IF ~body.ok
        THEN [ok |-> FALSE, err |-> "ContentDecryptFailed", pt |-> NoAtom,
              steps |-> <<"dh", "unwrap", "body">>]
        ELSE [ok |-> TRUE, err |-> "", pt |-> body.pt,
              steps |-> <<"dh", "unwrap", "body">>]

\* ---------------------------------------------------- 4.5 integrity verifier
fingerprint(plaintext) == sha256(plaintext)

\* --------------------------------------------------- the WASM entry points
\* wasm.decrypt_private_key(password, pk_salt, encrypted_private_key, pk_nonce)
decrypt_private_key(password, pk_salt, encrypted_private_key, pk_nonce) ==
    LET u == unlock_identity(password, pk_salt, encrypted_private_key, pk_nonce)
    IN  [success |-> u.ok, private_key_hex |-> u.key, error_message |-> u.err]

\* as wasm_decrypt_file, with the fingerprint taken of the output buffer
\* before the plaintext is in it
wasm_decrypt_file_hashEmptyBuffer(encryptedData, password, pk_salt, encrypted_private_key, pk_nonce, ephemeral_public_key, encrypted_dek, dek_nonce, file_nonce) ==
    LET u == unlock_identity(password, pk_salt, encrypted_private_key, pk_nonce)
        d == decrypt_file([encrypted_file_body |-> encryptedData,
                           file_nonce |-> file_nonce,
                           encrypted_dek |-> encrypted_dek,
                           dek_nonce |-> dek_nonce,
                           ephemeral_public_key |-> ephemeral_public_key], u.key)
    IN  IF ~u.ok
        THEN [success |-> FALSE, error_message |-> u.err, decrypted_data |-> NoAtom,
              file_hash_hex |-> NoAtom, steps |-> <<"unlock">>]
        ELSE IF ~d.ok
        THEN [success |-> FALSE, error_message |-> d.err, decrypted_data |-> NoAtom,
              file_hash_hex |-> NoAtom, steps |-> <<"unlock">> \o d.steps]
        ELSE [success |-> TRUE, error_message |-> "", decrypted_data |-> d.pt,
              file_hash_hex |-> fingerprint(Atom("plain", 0)),
              steps |-> <<"unlock">> \o d.steps]

\* wasm.decrypt_file(encryptedData, password, pk_salt, encrypted_private_key,
\*                   pk_nonce, ephemeral_public_key, encrypted_dek, dek_nonce,
\*                   file_nonce): unlocks the identity inside the module, then
\* decrypts the envelope and fingerprints the recovered plaintext
wasm_decrypt_file(encryptedData, password, pk_salt, encrypted_private_key, pk_nonce, ephemeral_public_key, encrypted_dek, dek_nonce, file_nonce) ==
    LET u == unlock_identity(password, pk_salt, encrypted_private_key, pk_nonce)
        d == decrypt_file([encrypted_file_body |-> encryptedData,
                           file_nonce |-> file_nonce,
                           encrypted_dek |-> encrypted_dek,
                           dek_nonce |-> dek_nonce,
                           ephemeral_public_key |-> ephemeral_public_key], u.key)
    IN  IF ~u.ok
        THEN [success |-> FALSE, error_message |-> u.err, decrypted_data |-> NoAtom,
              file_hash_hex |-> NoAtom, steps |-> <<"unlock">>]
        ELSE IF ~d.ok
        THEN [success |-> FALSE, error_message |-> d.err, decrypted_data |-> NoAtom,
              file_hash_hex |-> NoAtom, steps |-> <<"unlock">> \o d.steps]
        ELSE [success |-> TRUE, error_message |-> "", decrypted_data |-> d.pt,
              file_hash_hex |-> fingerprint(d.pt), steps |-> <<"unlock">> \o d.steps]

\* ------------------------------------------------------- utils/hexUtils
\* a string is a sequence of one-character strings
MaxHexLen == 4
Alphabet == {"0", "a", "A", "F", "g", "\\", "x"}

RECURSIVE StringsUpTo(_)
StringsUpTo(n) ==
    IF n = 0 THEN {<<>>}
    ELSE LET shorter == StringsUpTo(n - 1)
         IN  shorter \cup {Append(w, c) : w \in {x \in shorter : Len(x) = n - 1},
                                          c \in Alphabet}

NaN == -1

DigitValue(c) ==
    CASE c = "0" -> 0
      [] c \in {"a", "A"} -> 10
      [] c \in {"f", "F"} -> 15
      [] OTHER -> NaN

\* parseInt(s, 16) on a string of two characters: an "0x" prefix is skipped,
\* then the longest run of hex digits is the value; no digit at all is NaN
parseInt16(s) ==
    IF s[1] = "0" /\ s[2] \in {"x", "X"} THEN NaN
    ELSE IF DigitValue(s[1]) = NaN THEN NaN
    ELSE IF DigitValue(s[2]) = NaN THEN DigitValue(s[1])
    ELSE 16 * DigitValue(s[1]) + DigitValue(s[2])

\* a store into a Uint8Array: NaN becomes 0
ToUint8(n) == IF n = NaN THEN 0 ELSE n % 256

startsWithBackslashX(hexStr) == Len(hexStr) >= 2 /\ hexStr[1] = "\\" /\ hexStr[2] = "x"

\* as cleanHexOf, with the prefix left in place
cleanHexOf_keepPrefix(hexStr) == hexStr

cleanHexOf(hexStr) ==
    IF startsWithBackslashX(hexStr) THEN SubSeq(hexStr, 3, Len(hexStr)) ELSE hexStr

HexToUint8Array(hexStr) ==
    IF hexStr = <<>> THEN [threw |-> FALSE, error |-> "", bytes |-> <<>>]
    ELSE LET cleanHex == cleanHexOf(hexStr)
             len == Len(cleanHex)
         IN  IF len % 2 # 0
             THEN [threw |-> TRUE, error |-> "Invalid hex string length", bytes |-> <<>>]
             ELSE [threw |-> FALSE, error |-> "",
                   bytes |-> [k \in 1..(len \div 2) |->
                                 ToUint8(parseInt16(SubSeq(cleanHex, 2 * k - 1, 2 * k)))]]

\* ------------------------------------------------------------------- state
VARIABLES
    rng,            \* values drawn from the CSPRNG so far
    user_secrets,   \* the api.user_secrets row of the signed-in user
    file_metadata,  \* api.file_metadata rows, indexed by file_id
    file_dek,       \* api.file_dek rows, indexed by file_id
    bucket,         \* storage bucket "storage": path -> blob
    sentBlobs,      \* every blob that left the browser
    sentAtoms,      \* every other byte field that left the browser
    identity,       \* the setup call: its password and the scalar it drew
    issued,         \* the encrypt_file calls: plaintext, secrets drawn, output
    encryptions,    \* every aes256_gcm_encrypt output, in call order
    tampered,       \* stored fields altered after upload: <<file_id, field>>
    showModal,      \* HomeClient, per browser tab: the setup modal is open
    setupError,     \* SetupMasterKeyModal, per browser tab: error
    selectedFile,   \* FileViewer: the file whose modal is open, 0 if none
    modal,          \* FileDecryptionModal: step, errorMessage, decryptedData, url
    decryptCall,    \* the last wasm.decrypt_file call and what it was given
    verifyResult,   \* VerifyPrivateKey: result
    uploadResult,   \* StorageBucketUploader: result
    nRaw,           \* uploads made through StorageBucketUploader
    shown,          \* FileDecryptionModal: the errors displayed so far
    masterKey,      \* MasterKeyDeriver: masterKey
    derivations,    \* the key derivations made: password, salt, key
    wasmReady,      \* per browser tab: the WASM module is initialised
    cryptoCalls,    \* the WASM functions called, and whether the module was ready
    ready,          \* RustDemo: ready
    session,        \* the user supabase.auth.getUser() returns, 0 if none
    returned,       \* what the last server action called returned, and to whom
    attempt,        \* FileDecryptionModal: the handleDecrypt run in progress
    handlers,       \* per component: loading, and where its handler run is
    setupCalls,     \* SetupMasterKeyModal, per browser tab: calls of the last submit
    invocations,    \* the core's encrypt_file and decrypt_file invocations in progress
    objectPath,     \* the path a blob was uploaded to, as its segments between slashes
    file_path,      \* the file_path column written for it, and in which form
    storagePath,    \* what the download step made of file_path
    hexStr,         \* a hex field as it arrives from the database
    hexResult       \* what HexToUint8Array made of it

vars == <<rng, user_secrets, file_metadata, file_dek, bucket, sentBlobs, sentAtoms,
          identity, issued, encryptions, tampered, showModal, setupError,
          selectedFile, modal, decryptCall, verifyResult, uploadResult, nRaw, shown,
          masterKey, derivations, wasmReady, cryptoCalls, ready, invocations,
          session, returned, attempt, handlers, setupCalls, objectPath, file_path,
          storagePath, hexStr, hexResult>>

hexVars == <<hexStr, hexResult>>
pathVars == <<objectPath, file_path, storagePath>>
deriveVars == <<masterKey, derivations>>
wasmVars == <<wasmReady, cryptoCalls>>
flightVars == <<invocations>>
authVars == <<session, returned>>
asyncVars == <<attempt, handlers, setupCalls>>

\* what loading the module and calling encrypt_master_key can come to
WasmOutcomes == {"ok", "loadFails", "throws"}
NoSubmit == [submitted |-> FALSE, valid |-> FALSE, keygen |-> "none", saved |-> FALSE, calls |-> <<>>]

userEmail == Atom("salt", 1)
\* the user of the request: const { data: { user } } = await supabase.auth.getUser()
currentUser == session
Users == 1..2
Paths == 1..(MaxFiles + MaxRaw)
Tabs == 1..MaxTabs
Invocations == 1..MaxInvocations

NoSecrets == [present |-> FALSE, user_id |-> 0, encrypted_private_key |-> NoBlob,
              public_key |-> NoAtom, pk_salt |-> NoAtom, pk_nonce |-> NoAtom]
\* urls counts the object URLs the modal created and has not revoked
IdleModal == [password |-> 0, step |-> "idle", errorMessage |-> "",
              decryptedData |-> NoAtom, decryptedBlobUrl |-> FALSE, urls |-> 0]
NoCall == [called |-> FALSE, file |-> 0, password |-> 0, altered |-> {},
           stored_hash |-> NoAtom, result |-> [success |-> FALSE,
           error_message |-> "", decrypted_data |-> NoAtom,
           file_hash_hex |-> NoAtom, steps |-> <<>>]]
NoVerify == [set |-> FALSE, password |-> 0, success |-> FALSE,
             privateKey |-> NoAtom, error |-> ""]
NoUpload == [set |-> FALSE, success |-> FALSE, path |-> 0]
NoEnvelope == [encrypted_file_body |-> NoBlob, file_nonce |-> NoAtom,
               encrypted_dek |-> NoBlob, dek_nonce |-> NoAtom,
               ephemeral_public_key |-> NoAtom]
NoOutcome == [ok |-> FALSE, err |-> "", pt |-> NoAtom]
\* an invocation of encrypt_file or decrypt_file: pc is the step of 4.4 it
\* is at, the other fields are its arguments, its locals and what it returns;
\* draws records the CSPRNG values it took
NoInvocation == [op |-> "none", pc |-> 0, plaintext |-> NoAtom, key |-> NoAtom,
                 source |-> 0, envelope |-> NoEnvelope, dek |-> NoAtom,
                 ephemeral_scalar |-> NoAtom, shared_secret |-> NoAtom,
                 result |-> NoOutcome, draws |-> <<>>]
NoReturn == [action |-> "", caller |-> 0, success |-> FALSE, data |-> FALSE,
             owners |-> {}]
NoDek == [file_id |-> 0, owner_id |-> 0, encrypted_dek |-> NoBlob, dek_nonce |-> NoAtom,
          ephemeral_public_key |-> NoAtom]
\* a run of FileDecryptionModal.handleDecrypt: the await it is at, what it
\* was given and has fetched, the setStep calls it made (after the step it
\* started from), the calls it made, and the runs in progress
NoAttempt == [pc |-> "none", password |-> 0, dek |-> NoDek, secrets |-> NoSecrets,
              encryptedData |-> NoBlob, steps |-> <<>>, calls |-> <<>>, runs |-> 0]
Components == {"VerifyPrivateKey", "FileDecryptor", "FileEncryptor",
               "SetupMasterKeyModal", "MasterKeyDeriver", "StorageBucketUploader"}
\* a component's loading flag, the await its handler run is at (0 when none
\* is running) and the runs in progress
NoRun == [loading |-> FALSE, awaiting |-> 0, runs |-> 0]
NoHexResult == [called |-> FALSE, threw |-> FALSE, error |-> "", bytes |-> <<>>]

InitCore ==
    /\ rng = 0
    /\ user_secrets = NoSecrets
    /\ file_metadata = <<>>
    /\ file_dek = <<>>
    /\ bucket = [p \in Paths |-> NoBlob]
    /\ sentBlobs = {}
    /\ sentAtoms = {}
    /\ identity = [password |-> 0, scalar |-> NoAtom]
    /\ issued = <<>>
    /\ encryptions = <<>>
    /\ tampered = {}
    /\ showModal = [tab \in Tabs |-> TRUE]
    /\ setupError = [tab \in Tabs |-> ""]
    /\ selectedFile = 0
    /\ modal = IdleModal
    /\ decryptCall = NoCall
    /\ verifyResult = NoVerify
    /\ uploadResult = NoUpload
    /\ nRaw = 0
    /\ shown = {}
    /\ masterKey = NoAtom
    /\ derivations = {}
    /\ wasmReady = [tab \in Tabs |-> FALSE]
    /\ cryptoCalls = {}
    /\ ready = FALSE
    /\ invocations = [inv \in Invocations |-> NoInvocation]
    /\ session = 1
    /\ returned = NoReturn
    /\ attempt = NoAttempt
    /\ handlers = [c \in Components |-> NoRun]
    /\ setupCalls = [tab \in Tabs |-> NoSubmit]

NoFilePath == [form |-> "none", value |-> <<>>]
NoStoragePath == [called |-> FALSE, value |-> <<>>]
InitNoPath ==
    /\ objectPath = <<>>
    /\ file_path = NoFilePath
    /\ storagePath = NoStoragePath

Init ==
    /\ InitCore
    /\ InitNoPath
    /\ hexStr = <<>>
    /\ hexResult = NoHexResult

\* ---------------------------------------------------------- server actions
\* api.user_secrets holds one row per user_id: an insert for a user who has
\* a row is rejected, and the row stays as it is
user_secrets_insert(row) ==
    IF user_secrets.present
    THEN [ok |-> FALSE, error |-> "duplicate key value", row |-> user_secrets]
    ELSE [ok |-> TRUE, error |-> "", row |-> row]

\* getUserSecrets(userId): the row with that user_id, or null on any error
getUserSecrets(userId, ok) ==
    IF ok /\ user_secrets.present /\ user_secrets.user_id = userId
    THEN user_secrets
    ELSE NoSecrets

\* as saveUserSecrets, with upsert in place of insert
saveUserSecrets_upsert(input, dbOk) ==
    LET row == [present |-> TRUE,
                user_id |-> input.userId,
                encrypted_private_key |-> input.encryptedPrivateKey,
                public_key |-> input.publicKey,
                pk_salt |-> input.pkSalt,
                pk_nonce |-> input.pkNonce]
        written == [ok |-> TRUE, error |-> "", row |-> row]
    IN  IF ~dbOk
        THEN [success |-> FALSE, error |-> "Failed to save master key",
              user_secrets |-> user_secrets]
        ELSE [success |-> written.ok, error |-> written.error,
              user_secrets |-> written.row]

\* saveUserSecrets: one insert into api.user_secrets; dbOk is whether the
\* database could be reached
saveUserSecrets(input, dbOk) ==
    LET row == [present |-> TRUE,
                user_id |-> input.userId,
                encrypted_private_key |-> input.encryptedPrivateKey,
                public_key |-> input.publicKey,
                pk_salt |-> input.pkSalt,
                pk_nonce |-> input.pkNonce]
        written == user_secrets_insert(row)
    IN  IF ~dbOk
        THEN [success |-> FALSE, error |-> "Failed to save master key",
              user_secrets |-> user_secrets]
        ELSE [success |-> written.ok, error |-> written.error,
              user_secrets |-> written.row]

\* as uploadFile, with upsert set to true
uploadFile_upsert(file, filePath) ==
    [success |-> TRUE, filePath |-> filePath,
     bucket |-> [bucket EXCEPT ![filePath] = file]]

\* uploadFile: upsert is false, so an occupied path is an error
uploadFile(file, filePath) ==
    IF bucket[filePath] # NoBlob
    THEN [success |-> FALSE, filePath |-> 0, bucket |-> bucket]
    ELSE [success |-> TRUE, filePath |-> filePath,
          bucket |-> [bucket EXCEPT ![filePath] = file]]

\* ----------------------------------------------------------------- handlers
\* the module's init function: it instantiates the module once, and returns
\* the instance it has when it is run again
wasm_default(initialised) == TRUE

\* as loadWasm, with the module imported and default() not awaited
loadWasm_importOnly(initialised) == initialised

\* const wasm = await import("@/pkg/rust"); await wasm.default();
loadWasm(initialised) == wasm_default(initialised)

\* a call into the module from a tab, after the handler has loaded it
CallWasm(tab, fn) ==
    /\ wasmReady' = [wasmReady EXCEPT ![tab] = loadWasm(wasmReady[tab])]
    /\ cryptoCalls' = cryptoCalls \cup {[fn |-> fn, ready |-> loadWasm(wasmReady[tab])]}

\* HomePage and HomeClient: a tab loads the page; the modal is open unless
\* getUserSecrets returned a row.  A page load starts the tab afresh: the
\* module is not initialised and every component has its initial state (the
\* components other than the setup modal are used in tab 1).
openPage(tab, ok) ==
    /\ currentUser # 0
    /\ showModal' = [showModal EXCEPT ![tab] = (getUserSecrets(currentUser, ok) = NoSecrets)]
    /\ setupError' = [setupError EXCEPT ![tab] = ""]
    /\ setupCalls' = [setupCalls EXCEPT ![tab] = NoSubmit]
    /\ wasmReady' = [wasmReady EXCEPT ![tab] = FALSE]
    /\ IF tab = 1
       THEN /\ selectedFile' = 0
            /\ modal' = IdleModal
            /\ verifyResult' = NoVerify
            /\ uploadResult' = NoUpload
            /\ masterKey' = NoAtom
            /\ ready' = FALSE
       ELSE UNCHANGED <<selectedFile, modal, verifyResult, uploadResult, masterKey, ready>>
    /\ UNCHANGED <<rng, user_secrets, file_metadata, file_dek, bucket, sentBlobs,
                   sentAtoms, identity, issued, encryptions, tampered, decryptCall,
                   nRaw, hexVars, pathVars, flightVars, authVars, attempt, handlers, shown,
                   derivations, cryptoCalls>>

\* as resultSuccess, taking every answer of saveUserSecrets for a success
resultSuccess_unchecked(result) == TRUE

\* handleSubmit goes on to onComplete unless !result.success
resultSuccess(result) == result.success

\* SetupMasterKeyModal.handleSubmit in one tab
handleSubmit(tab, password, confirmPassword, wasm, dbOk) ==
    /\ showModal[tab]
    /\ rng + 2 <= MaxDraws
    /\ IF password = 0
       THEN /\ setupError' = [setupError EXCEPT ![tab] = "Password is required"]
            /\ setupCalls' = [setupCalls EXCEPT ![tab] =
                  [NoSubmit EXCEPT !.submitted = TRUE,
                      !.valid = (password # 0 /\ password = confirmPassword)]]
            /\ UNCHANGED <<rng, user_secrets, sentBlobs, sentAtoms, identity, encryptions,
                           showModal, wasmVars>>
       ELSE IF password # confirmPassword
       THEN /\ setupError' = [setupError EXCEPT ![tab] = "Passwords do not match"]
            /\ setupCalls' = [setupCalls EXCEPT ![tab] =
                  [NoSubmit EXCEPT !.submitted = TRUE,
                      !.valid = (password # 0 /\ password = confirmPassword)]]
            /\ UNCHANGED <<rng, user_secrets, sentBlobs, sentAtoms, identity, encryptions,
                           showModal, wasmVars>>
       ELSE IF wasm = "loadFails"
       THEN /\ setupError' = [setupError EXCEPT ![tab] = "WASM module failed to load"]
            /\ setupCalls' = [setupCalls EXCEPT ![tab] =
                  [NoSubmit EXCEPT !.submitted = TRUE,
                      !.valid = (password # 0 /\ password = confirmPassword)]]
            /\ UNCHANGED <<rng, user_secrets, sentBlobs, sentAtoms, identity, encryptions,
                           showModal, wasmVars>>
       ELSE IF wasm = "throws"
       THEN /\ CallWasm(tab, "encrypt_master_key")
            /\ setupError' = [setupError EXCEPT ![tab] = "encrypt_master_key failed"]
            /\ setupCalls' = [setupCalls EXCEPT ![tab] =
                  [NoSubmit EXCEPT !.submitted = TRUE,
                      !.valid = (password # 0 /\ password = confirmPassword),
                      !.keygen = "throws",
                      !.calls = <<"encrypt_master_key">>]]
            /\ UNCHANGED <<rng, user_secrets, sentBlobs, sentAtoms, identity, encryptions,
                           showModal>>
       ELSE LET id == setup_identity(rng, password, userEmail)
                input == [userId |-> currentUser,
                          encryptedPrivateKey |-> id.encrypted_private_key,
                          publicKey |-> id.public_key,
                          pkSalt |-> id.salt,
                          pkNonce |-> id.nonce]
                result == saveUserSecrets(input, dbOk)
            IN  /\ CallWasm(tab, "encrypt_master_key")
                /\ rng' = rng + 2
                /\ encryptions' = Append(encryptions, id.encrypted_private_key)
                /\ sentBlobs' = sentBlobs \cup {input.encryptedPrivateKey}
                /\ sentAtoms' = sentAtoms \cup {input.publicKey, input.pkSalt, input.pkNonce}
                /\ user_secrets' = result.user_secrets
                /\ setupCalls' = [setupCalls EXCEPT ![tab] =
                      [submitted |-> TRUE,
                       valid |-> (password # 0 /\ password = confirmPassword),
                       keygen |-> "ok",
                       saved |-> result.success,
                       calls |-> IF resultSuccess(result)
                                 THEN <<"encrypt_master_key", "saveUserSecrets", "onComplete">>
                                 ELSE <<"encrypt_master_key", "saveUserSecrets">>]]
                /\ IF resultSuccess(result)
                   THEN /\ identity' = [password |-> password,
                                        scalar |-> Atom("scalar", random_bytes(rng, 1))]
                        /\ showModal' = [showModal EXCEPT ![tab] = FALSE]
                        /\ setupError' = [setupError EXCEPT ![tab] = ""]
                   ELSE /\ setupError' = [setupError EXCEPT ![tab] = result.error]
                        /\ UNCHANGED <<identity, showModal>>
    /\ UNCHANGED <<file_metadata, file_dek, bucket, issued, tampered, selectedFile,
                   modal, decryptCall, verifyResult, uploadResult, nRaw, hexVars, pathVars,
                   flightVars, authVars, attempt, handlers, shown, deriveVars, ready>>

\* the RPC upload_encrypted_file: one call writes the file_metadata row and
\* the file_dek row of the file, both owned by the caller
upload_encrypted_file(p_file_path, p_file_hash, p_file_nonce, p_encrypted_dek, p_dek_nonce, p_ephemeral_public_key) ==
    LET file_id == Len(file_metadata) + 1
    IN  [file_metadata |-> Append(file_metadata,
             [file_id |-> file_id, uploader_id |-> currentUser,
              file_path |-> p_file_path, file_hash |-> p_file_hash,
              file_nonce |-> p_file_nonce]),
         file_dek |-> Append(file_dek,
             [file_id |-> file_id, owner_id |-> currentUser,
              encrypted_dek |-> p_encrypted_dek, dek_nonce |-> p_dek_nonce,
              ephemeral_public_key |-> p_ephemeral_public_key])]

\* as insertFileMetadata, writing the file_metadata row and leaving the DEK
\* to a second call that is never made
insertFileMetadata_metadataOnly(filePath, fileHash, fileNonce, encryptedDek, dekNonce, ephemeralPublicKey, rpcOk) ==
    LET written == upload_encrypted_file(filePath, fileHash, fileNonce, encryptedDek,
                                         dekNonce, ephemeralPublicKey)
    IN  IF ~rpcOk
        THEN [success |-> FALSE, file_metadata |-> file_metadata, file_dek |-> file_dek]
        ELSE [success |-> TRUE, file_metadata |-> written.file_metadata,
              file_dek |-> file_dek]

\* insertFileMetadata: one call of the RPC; rpcOk is whether it went through
insertFileMetadata(filePath, fileHash, fileNonce, encryptedDek, dekNonce, ephemeralPublicKey, rpcOk) ==
    LET written == upload_encrypted_file(filePath, fileHash, fileNonce, encryptedDek,
                                         dekNonce, ephemeralPublicKey)
    IN  IF ~rpcOk
        THEN [success |-> FALSE, file_metadata |-> file_metadata, file_dek |-> file_dek]
        ELSE [success |-> TRUE, file_metadata |-> written.file_metadata,
              file_dek |-> written.file_dek]

\* encrypt_file, then uploadFile, then, if the blob is stored,
\* insertFileMetadata
uploadEncrypted(plaintext, filePath, rpcOk) ==
    /\ user_secrets.present
    /\ Len(file_metadata) < MaxFiles
    /\ rng + 4 <= MaxDraws
    /\ LET env == encrypt_file(rng, plaintext, user_secrets.public_key)
           fileHash == fingerprint(plaintext)
           up == uploadFile(env.encrypted_file_body, filePath)
           ins == insertFileMetadata(up.filePath, fileHash, env.file_nonce,
                                     env.encrypted_dek, env.dek_nonce,
                                     env.ephemeral_public_key, rpcOk)
           stored == up.success /\ ins.success
       IN  /\ CallWasm(1, "encrypt_file")
           /\ rng' = rng + 4
           /\ encryptions' = encryptions \o <<env.encrypted_file_body, env.encrypted_dek>>
           /\ issued' = Append(issued,
                  [file_id |-> IF stored THEN Len(file_metadata) + 1 ELSE 0,
                   plaintext |-> plaintext,
                   dek |-> Atom("dek", random_bytes(rng, 1)),
                   ephemeral_scalar |-> Atom("scalar", random_bytes(rng, 3)),
                   envelope |-> env, hash |-> fileHash])
           /\ sentBlobs' = sentBlobs \cup {env.encrypted_file_body}
                           \cup (IF up.success THEN {env.encrypted_dek} ELSE {})
           /\ sentAtoms' = sentAtoms \cup
                  (IF up.success
                   THEN {fileHash, env.file_nonce, env.dek_nonce, env.ephemeral_public_key}
                   ELSE {})
           /\ bucket' = up.bucket
           /\ IF stored
              THEN /\ file_metadata' = ins.file_metadata
                   /\ file_dek' = ins.file_dek
              ELSE UNCHANGED <<file_metadata, file_dek>>
    /\ UNCHANGED <<user_secrets, identity, tampered, showModal, setupError, selectedFile,
                   modal, decryptCall, verifyResult, uploadResult, nRaw, hexVars, pathVars, flightVars, authVars, asyncVars, shown,
                   deriveVars, ready>>

\* StorageBucketUploader.handleUpload: the selected file goes to the bucket as is
handleUpload(file, filePath) ==
    /\ nRaw < MaxRaw
    /\ LET up == uploadFile(file, filePath)
       IN  /\ sentBlobs' = sentBlobs \cup {file}
           /\ bucket' = up.bucket
           /\ uploadResult' = [set |-> TRUE, success |-> up.success, path |-> up.filePath]
    /\ nRaw' = nRaw + 1
    /\ UNCHANGED <<rng, user_secrets, file_metadata, file_dek, sentAtoms, identity, encryptions,
                   issued, tampered, showModal, setupError, selectedFile, modal,
                   decryptCall, verifyResult, hexVars, pathVars, flightVars, authVars, asyncVars, shown, deriveVars, wasmVars, ready>>

\* the files a user can pick in StorageBucketUploader: plain ones, or the
\* encrypted body of an earlier upload saved to disk
SelectableFiles ==
    {RawBlob(Atom("plain", c)) : c \in Plaintexts}
      \cup {issued[i].envelope.encrypted_file_body : i \in 1..Len(issued)}

\* ------------------------------------------------- the storage side alters
\* The server stores every field of an upload and can hand back anything in
\* its place: another stored value of the same kind, the value with a bit
\* flipped, or a hex string cut short.  One field of one file is replaced in
\* a run.
Fields == {"encrypted_file_body", "file_nonce", "encrypted_dek", "dek_nonce",
           "ephemeral_public_key", "file_hash"}

StoredValue(f, field) ==
    CASE field = "encrypted_file_body" -> bucket[file_metadata[f].file_path]
      [] field = "file_nonce" -> file_metadata[f].file_nonce
      [] field = "file_hash" -> file_metadata[f].file_hash
      [] field = "encrypted_dek" -> file_dek[f].encrypted_dek
      [] field = "dek_nonce" -> file_dek[f].dek_nonce
      [] field = "ephemeral_public_key" -> file_dek[f].ephemeral_public_key

FileIds == 1..Len(file_metadata)

\* the encrypt_file call that produced file f
IssuedFor(f) == CHOOSE r \in {issued[i] : i \in 1..Len(issued)} : r.file_id = f

Replacements(f, field) ==
    (CASE field \in {"encrypted_file_body", "encrypted_dek"} ->
             {bucket[p] : p \in Paths} \cup {file_dek[i].encrypted_dek : i \in FileIds}
               \cup {user_secrets.encrypted_private_key}
               \cup {[StoredValue(f, field) EXCEPT !.flip = 1]}
       [] field \in {"file_nonce", "dek_nonce"} ->
             {file_metadata[i].file_nonce : i \in FileIds}
               \cup {file_dek[i].dek_nonce : i \in FileIds}
               \cup {user_secrets.pk_nonce, Atom("nonce", 0), Atom("oddhex", 0)}
       [] field = "ephemeral_public_key" ->
             {file_dek[i].ephemeral_public_key : i \in FileIds}
               \cup {user_secrets.public_key, x25519_public(Atom("scalar", 0)),
                     Atom("oddhex", 0)}
       [] field = "file_hash" ->
             {file_metadata[i].file_hash : i \in FileIds}
               \cup {fingerprint(Atom("plain", c)) : c \in Plaintexts})
    \ {StoredValue(f, field), NoBlob}

Tamper(f, field, value) ==
    /\ tampered = {}
    /\ f \in FileIds
    /\ <<f, field>> \notin tampered
    /\ value \in Replacements(f, field)
    /\ tampered' = tampered \cup {<<f, field>>}
    /\ CASE field = "encrypted_file_body" ->
                /\ bucket' = [bucket EXCEPT ![file_metadata[f].file_path] = value]
                /\ UNCHANGED <<file_metadata, file_dek>>
         [] field \in {"file_nonce", "file_hash"} ->
                /\ file_metadata' = [file_metadata EXCEPT ![f][field] = value]
                /\ UNCHANGED <<bucket, file_dek>>
         [] OTHER ->
                /\ file_dek' = [file_dek EXCEPT ![f][field] = value]
                /\ UNCHANGED <<bucket, file_metadata>>
    /\ UNCHANGED <<rng, user_secrets, sentBlobs, sentAtoms, identity, encryptions, issued, showModal,
                   setupError, selectedFile, modal, decryptCall, verifyResult,
                   uploadResult, nRaw, hexVars, pathVars, flightVars, authVars, asyncVars, shown, deriveVars, wasmVars, ready>>

\* ------------------------------------------------------ viewing a file
\* FileViewer: a click on a row opens the modal for that file
selectFile(f) ==
    /\ selectedFile = 0
    /\ f \in FileIds
    /\ selectedFile' = f
    /\ UNCHANGED <<rng, user_secrets, file_metadata, file_dek, bucket, sentBlobs,
                   sentAtoms, identity, encryptions, issued, tampered, showModal, setupError, modal,
                   decryptCall, verifyResult, uploadResult, nRaw, hexVars, pathVars, flightVars, authVars, asyncVars, shown, deriveVars, wasmVars, ready>>

\* as handleDecrypt_call, with the two nonces in each other's place
handleDecrypt_call_swappedNonces(encryptedData, password, secrets, dek, file) ==
    wasm_decrypt_file(encryptedData, password, secrets.pk_salt,
                      secrets.encrypted_private_key, secrets.pk_nonce,
                      dek.ephemeral_public_key, dek.encrypted_dek, file.file_nonce,
                      dek.dek_nonce)

\* the call FileDecryptionModal.handleDecrypt makes into the WASM module
handleDecrypt_call(encryptedData, password, secrets, dek, file) ==
    wasm_decrypt_file(encryptedData, password, secrets.pk_salt,
                      secrets.encrypted_private_key, secrets.pk_nonce,
                      dek.ephemeral_public_key, dek.encrypted_dek, dek.dek_nonce,
                      file.file_nonce)

\* getUserFiles: the rows of the signed-in user, or no rows with an error
getUserFiles(ok) ==
    IF currentUser = 0
    THEN [success |-> FALSE, files |-> <<>>, error |-> "Not authenticated"]
    ELSE IF ~ok
    THEN [success |-> FALSE, files |-> <<>>, error |-> "query failed"]
    ELSE [success |-> TRUE,
          files |-> SelectSeq(file_metadata, LAMBDA row : row.uploader_id = currentUser),
          error |-> ""]

\* getFileDek: the single file_dek row of the file that the user owns, or
\* null with an error when there is none or more than one
getFileDek(fileId, ok) ==
    LET rows == {k \in 1..Len(file_dek) :
                    file_dek[k].file_id = fileId /\ file_dek[k].owner_id = currentUser}
    IN  IF currentUser = 0
        THEN [success |-> FALSE, dek |-> NoDek, error |-> "Not authenticated"]
        ELSE IF ~ok
        THEN [success |-> FALSE, dek |-> NoDek, error |-> "query failed"]
        ELSE IF Cardinality(rows) # 1
        THEN [success |-> FALSE, dek |-> NoDek, error |-> "no rows"]
        ELSE [success |-> TRUE, dek |-> file_dek[CHOOSE k \in rows : TRUE], error |-> ""]

\* getUserSecretsForDecryption: the user_secrets row, or null with an error
getUserSecretsForDecryption(ok) ==
    IF currentUser = 0
    THEN [success |-> FALSE, secrets |-> NoSecrets, error |-> "Not authenticated"]
    ELSE IF ~ok
    THEN [success |-> FALSE, secrets |-> NoSecrets, error |-> "query failed"]
    ELSE IF ~(user_secrets.present /\ user_secrets.user_id = currentUser)
    THEN [success |-> FALSE, secrets |-> NoSecrets, error |-> "no rows"]
    ELSE [success |-> TRUE, secrets |-> user_secrets, error |-> ""]

\* a database hex field as the string HexToUint8Array is given: a stored
\* field cut short has an odd number of digits
hexOf(field) ==
    IF "t" \in DOMAIN field /\ field.t = "oddhex" THEN <<"0", "a", "F">> ELSE <<"0", "a">>

\* what the modal renders for an error: the fixed heading and errorMessage
ErrorDisplay(kind, message) ==
    [kind |-> kind, heading |-> "Decryption failed", message |-> message]

\* as handleDecrypt_result, with the data copied and the blob URL created
\* before the result is looked at
handleDecrypt_result_urlFirst(state, decryptResult) ==
    IF ~decryptResult.success
    THEN [state EXCEPT !.step = "error", !.errorMessage = decryptResult.error_message,
                       !.decryptedData = decryptResult.decrypted_data,
                       !.decryptedBlobUrl = TRUE, !.urls = state.urls + 1]
    ELSE [state EXCEPT !.step = "done", !.errorMessage = "",
                       !.decryptedData = decryptResult.decrypted_data,
                       !.decryptedBlobUrl = TRUE, !.urls = state.urls + 1]

\* FileDecryptionModal.handleDecrypt after the WASM call: a failure is thrown
\* to the catch block, a success is copied, given a blob URL and shown
handleDecrypt_result(state, decryptResult) ==
    IF ~decryptResult.success
    THEN [state EXCEPT !.step = "error", !.errorMessage = decryptResult.error_message]
    ELSE [state EXCEPT !.step = "done", !.errorMessage = "",
                       !.decryptedData = decryptResult.decrypted_data,
                       !.decryptedBlobUrl = TRUE, !.urls = state.urls + 1]

\* const isLoading = step !== "idle" && step !== "done" && step !== "error"
isLoading(step) == step \notin {"idle", "done", "error"}

\* FileDecryptionModal.handleDecrypt; keysOk and downloadOk are the outcomes
\* of the server actions and of the download
handleDecrypt(password, keysOk, downloadOk) ==
    /\ selectedFile # 0
    /\ modal.step \in {"idle", "error"}
    /\ LET file == file_metadata[selectedFile]
           dekResult == getFileDek(selectedFile, keysOk)
           secretsResult == getUserSecretsForDecryption(keysOk)
           dek == dekResult.dek
           secrets == secretsResult.secrets
           encryptedData == bucket[file.file_path]
           decoded == {HexToUint8Array(hexOf(x)) :
                          x \in {secrets.encrypted_private_key, secrets.pk_nonce,
                                 dek.ephemeral_public_key, dek.encrypted_dek,
                                 dek.dek_nonce, file.file_nonce}}
           decryptResult == handleDecrypt_call(encryptedData, password, secrets, dek, file)
       IN  IF ~dekResult.success
           THEN /\ modal' = [modal EXCEPT !.password = password, !.step = "error",
                                          !.errorMessage = dekResult.error]
                /\ UNCHANGED <<decryptCall, shown, wasmVars>>
           ELSE IF ~secretsResult.success
           THEN /\ modal' = [modal EXCEPT !.password = password, !.step = "error",
                                          !.errorMessage = secretsResult.error]
                /\ UNCHANGED <<decryptCall, shown, wasmVars>>
           ELSE IF ~downloadOk \/ encryptedData = NoBlob
           THEN /\ modal' = [modal EXCEPT !.password = password, !.step = "error",
                                  !.errorMessage = "Failed to download encrypted file"]
                /\ UNCHANGED <<decryptCall, shown, wasmVars>>
           ELSE IF \E r \in decoded : r.threw
           THEN /\ modal' = [modal EXCEPT !.password = password, !.step = "error",
                                  !.errorMessage = "Invalid hex string length"]
                /\ shown' = shown \cup
                      {ErrorDisplay("InvalidFormat", "Invalid hex string length")}
                /\ wasmReady' = [wasmReady EXCEPT ![1] = loadWasm(wasmReady[1])]
                /\ UNCHANGED <<decryptCall, cryptoCalls>>
           ELSE /\ decryptCall' = [called |-> TRUE, file |-> selectedFile,
                                   password |-> password,
                                   altered |-> {fd \in Fields : <<selectedFile, fd>> \in tampered},
                                   stored_hash |-> file.file_hash,
                                   result |-> decryptResult]
                /\ CallWasm(1, "decrypt_file")
                /\ modal' = handleDecrypt_result([modal EXCEPT !.password = password],
                                                 decryptResult)
                /\ IF ~decryptResult.success
                   THEN shown' = shown \cup
                              {ErrorDisplay(decryptResult.error_message,
                                            decryptResult.error_message)}
                   ELSE UNCHANGED shown
    /\ UNCHANGED <<rng, user_secrets, file_metadata, file_dek, bucket, sentBlobs,
                   sentAtoms, identity, encryptions, issued, tampered, showModal, setupError,
                   selectedFile, verifyResult, uploadResult, nRaw, hexVars, pathVars, flightVars, authVars, asyncVars, deriveVars, ready>>

\* as resetState, without the revocation of the blob URL
resetState_noRevoke(state) == [IdleModal EXCEPT !.urls = state.urls]

\* FileDecryptionModal.resetState: the blob URL, if there is one, is revoked
resetState(state) ==
    [IdleModal EXCEPT !.urls = IF state.decryptedBlobUrl THEN state.urls - 1
                                ELSE state.urls]

\* FileDecryptionModal.handleClose: resetState, then onClose; the buttons
\* that call it are disabled while loading
handleClose ==
    /\ selectedFile # 0
    /\ ~isLoading(modal.step)
    /\ modal' = resetState(modal)
    /\ selectedFile' = 0
    /\ UNCHANGED <<rng, user_secrets, file_metadata, file_dek, bucket, sentBlobs,
                   sentAtoms, identity, encryptions, issued, tampered, showModal, setupError,
                   decryptCall, verifyResult, uploadResult, nRaw, hexVars, pathVars, flightVars, authVars, asyncVars, shown, deriveVars, wasmVars, ready>>

\* ------------------------------- FileDecryptionModal.handleDecrypt by await
\* the decrypt button and the Enter key: the button is disabled while
\* loading, the password field is rendered only when not loading, and the
\* view shown in step done has neither
decryptEnabled(step) == ~isLoading(step) /\ step # "done"

\* as keysFetched, with the results used unchecked
keysFetched_unchecked(dekResult, secretsResult) == TRUE

\* if (!dekResult.success || !dekResult.dek) throw; the same for the secrets
keysFetched(dekResult, secretsResult) ==
    /\ dekResult.success /\ dekResult.dek # NoDek
    /\ secretsResult.success /\ secretsResult.secrets # NoSecrets

\* the catch block: setErrorMessage(message); setStep("error")
toError(message) ==
    /\ modal' = [modal EXCEPT !.step = "error", !.errorMessage = message]
    /\ attempt' = [attempt EXCEPT !.pc = "none",
                                  !.steps = Append(attempt.steps, "error"),
                                  !.runs = attempt.runs - 1]

\* a click on View File or Retry, or Enter in the password field: up to the
\* first await
handleDecrypt_start(password) ==
    /\ selectedFile # 0
    /\ password # 0
    /\ decryptEnabled(modal.step)
    /\ modal' = [modal EXCEPT !.password = password, !.step = "fetching-keys",
                              !.errorMessage = ""]
    /\ attempt' = [NoAttempt EXCEPT !.pc = "fetching-keys", !.password = password,
                                    !.steps = <<modal.step, "fetching-keys">>,
                                    !.calls = <<"getFileDek", "getUserSecretsForDecryption">>,
                                    !.runs = attempt.runs + 1]
    /\ UNCHANGED <<rng, user_secrets, file_metadata, file_dek, bucket, sentBlobs,
                   sentAtoms, identity, encryptions, issued, tampered, showModal,
                   setupError, selectedFile, decryptCall, verifyResult, uploadResult,
                   nRaw, hexVars, pathVars, flightVars, authVars, handlers, setupCalls, shown,
                   deriveVars, wasmVars, ready>>

\* Promise.all([getFileDek, getUserSecretsForDecryption]) has settled
handleDecrypt_keys(keysOk) ==
    /\ attempt.pc = "fetching-keys"
    /\ LET dekResult == getFileDek(selectedFile, keysOk)
           secretsResult == getUserSecretsForDecryption(keysOk)
       IN  IF ~keysFetched(dekResult, secretsResult)
           THEN toError(IF ~dekResult.success THEN dekResult.error
                        ELSE secretsResult.error)
           ELSE /\ modal' = [modal EXCEPT !.step = "downloading-file"]
                /\ attempt' = [attempt EXCEPT
                       !.pc = "downloading-file",
                       !.dek = dekResult.dek,
                       !.secrets = secretsResult.secrets,
                       !.steps = Append(attempt.steps, "downloading-file"),
                       !.calls = Append(attempt.calls, "download")]
    /\ UNCHANGED <<rng, user_secrets, file_metadata, file_dek, bucket, sentBlobs,
                   sentAtoms, identity, encryptions, issued, tampered, showModal,
                   setupError, selectedFile, decryptCall, verifyResult, uploadResult,
                   nRaw, hexVars, pathVars, flightVars, authVars, handlers, setupCalls, shown,
                   deriveVars, wasmVars, ready>>

\* the download from the bucket has settled
handleDecrypt_download(downloadOk) ==
    /\ attempt.pc = "downloading-file"
    /\ LET encryptedData == bucket[file_metadata[selectedFile].file_path]
       IN  IF ~downloadOk \/ encryptedData = NoBlob
           THEN toError("Failed to download encrypted file")
           ELSE /\ modal' = [modal EXCEPT !.step = "decrypting-key"]
                /\ attempt' = [attempt EXCEPT
                       !.pc = "decrypting-key",
                       !.encryptedData = encryptedData,
                       !.steps = Append(attempt.steps, "decrypting-key"),
                       !.calls = Append(attempt.calls, "wasm.default")]
    /\ UNCHANGED <<rng, user_secrets, file_metadata, file_dek, bucket, sentBlobs,
                   sentAtoms, identity, encryptions, issued, tampered, showModal,
                   setupError, selectedFile, decryptCall, verifyResult, uploadResult,
                   nRaw, hexVars, pathVars, flightVars, authVars, handlers, setupCalls, shown,
                   deriveVars, wasmVars, ready>>

\* the import and initialisation of the WASM module have settled; when they
\* resolved, the rest of the handler runs to its end: setStep("decrypting-file"),
\* the hex fields are decoded, wasm.decrypt_file is called, its result is shown
handleDecrypt_decrypt(wasmOk) ==
    /\ attempt.pc = "decrypting-key"
    /\ LET file == file_metadata[selectedFile]
           dek == attempt.dek
           secrets == attempt.secrets
           decoded == {HexToUint8Array(hexOf(x)) :
                          x \in {secrets.encrypted_private_key, secrets.pk_nonce,
                                 dek.ephemeral_public_key, dek.encrypted_dek,
                                 dek.dek_nonce, file.file_nonce}}
           decryptResult == handleDecrypt_call(attempt.encryptedData, attempt.password,
                                               secrets, dek, file)
           after == handleDecrypt_result(modal, decryptResult)
       IN  IF ~wasmOk
           THEN /\ toError("Failed to load the WASM module")
                /\ UNCHANGED <<decryptCall, shown, wasmVars>>
           ELSE IF \E r \in decoded : r.threw
           THEN /\ modal' = [modal EXCEPT !.step = "error",
                                  !.errorMessage = "Invalid hex string length"]
                /\ attempt' = [attempt EXCEPT
                       !.pc = "none",
                       !.steps = attempt.steps \o <<"decrypting-file", "error">>,
                       !.runs = attempt.runs - 1]
                /\ shown' = shown \cup
                      {ErrorDisplay("InvalidFormat", "Invalid hex string length")}
                /\ wasmReady' = [wasmReady EXCEPT ![1] = loadWasm(wasmReady[1])]
                /\ UNCHANGED <<decryptCall, cryptoCalls>>
           ELSE /\ decryptCall' = [called |-> TRUE, file |-> selectedFile,
                                   password |-> attempt.password,
                                   altered |-> {fd \in Fields : <<selectedFile, fd>> \in tampered},
                                   stored_hash |-> file.file_hash,
                                   result |-> decryptResult]
                /\ CallWasm(1, "decrypt_file")
                /\ modal' = after
                /\ attempt' = [attempt EXCEPT
                       !.pc = "none",
                       !.steps = attempt.steps \o <<"decrypting-file", after.step>>,
                       !.calls = Append(attempt.calls, "decrypt_file"),
                       !.runs = attempt.runs - 1]
                /\ IF ~decryptResult.success
                   THEN shown' = shown \cup
                              {ErrorDisplay(decryptResult.error_message,
                                            decryptResult.error_message)}
                   ELSE UNCHANGED shown
    /\ UNCHANGED <<rng, user_secrets, file_metadata, file_dek, bucket, sentBlobs,
                   sentAtoms, identity, encryptions, issued, tampered, showModal,
                   setupError, selectedFile, verifyResult, uploadResult, nRaw, hexVars, pathVars,
                   flightVars, authVars, handlers, setupCalls, deriveVars, ready>>

\* as handleVerify_result, with any returned object taken for a success
handleVerify_result_noSuccessCheck(password, decryptResult) ==
    [set |-> TRUE, password |-> password, success |-> TRUE,
     privateKey |-> decryptResult.private_key_hex, error |-> ""]

\* VerifyPrivateKey.handleVerify: what it keeps of the WASM result
handleVerify_result(password, decryptResult) ==
    IF decryptResult.success
    THEN [set |-> TRUE, password |-> password, success |-> TRUE,
          privateKey |-> decryptResult.private_key_hex, error |-> ""]
    ELSE [set |-> TRUE, password |-> password, success |-> FALSE,
          privateKey |-> NoAtom, error |-> decryptResult.error_message]

\* VerifyPrivateKey.handleVerify
handleVerify(password) ==
    /\ IF ~user_secrets.present
       THEN /\ verifyResult' = [set |-> TRUE, password |-> password, success |-> FALSE,
                                privateKey |-> NoAtom,
                                error |-> "No secrets found for this user"]
            /\ UNCHANGED wasmVars
       ELSE /\ CallWasm(1, "decrypt_private_key")
            /\ verifyResult' = handleVerify_result(password,
                                  decrypt_private_key(password, user_secrets.pk_salt,
                                                      user_secrets.encrypted_private_key,
                                                      user_secrets.pk_nonce))
    /\ UNCHANGED <<rng, user_secrets, file_metadata, file_dek, bucket, sentBlobs,
                   sentAtoms, identity, encryptions, issued, tampered, showModal,
                   setupError, selectedFile, modal, decryptCall, uploadResult, nRaw,
                   hexVars, pathVars, flightVars, authVars, asyncVars, shown, deriveVars, ready>>

\* wasm.master_key_bytes_to_hex(password, salt): the derived key, as hex
master_key_bytes_to_hex(password, salt) == derive_key(password, salt)

\* as handleDerive_call, without the e-mail address as the salt
handleDerive_call_noSalt(userInput, email) ==
    master_key_bytes_to_hex(userInput, Atom("salt", 0))

\* the derivation MasterKeyDeriver.handleDerive asks for
handleDerive_call(userInput, email) == master_key_bytes_to_hex(userInput, email)

\* MasterKeyDeriver.handleDerive: the key derived from the input is logged,
\* a master key is made and encrypted under it, the derived key is kept
handleDerive(userInput, email) ==
    /\ userInput # 0
    /\ rng + 2 <= MaxDraws
    /\ Cardinality({k \in 1..Len(encryptions) : encryptions[k].pt.t = "scalar"}) < MaxDerive
    /\ LET isReady == loadWasm(wasmReady[1])
           derivedKey == handleDerive_call(userInput, email)
           encryptedResult == setup_identity(rng, userInput, email)
       IN  /\ wasmReady' = [wasmReady EXCEPT ![1] = isReady]
           /\ cryptoCalls' = cryptoCalls \cup
                  {[fn |-> "master_key_bytes_to_hex", ready |-> isReady],
                   [fn |-> "encrypt_master_key", ready |-> isReady]}
           /\ rng' = rng + 2
           /\ encryptions' = Append(encryptions, encryptedResult.encrypted_private_key)
           /\ derivations' = derivations \cup
                  {[password |-> userInput, salt |-> email, key |-> derivedKey]}
           /\ masterKey' = derivedKey
    /\ UNCHANGED <<user_secrets, file_metadata, file_dek, bucket, sentBlobs, sentAtoms,
                   identity, issued, tampered, showModal, setupError, selectedFile,
                   modal, decryptCall, verifyResult, uploadResult, nRaw, hexVars, pathVars, flightVars, authVars, asyncVars, shown,
                   ready>>

\* RustDemo: the effect run on mount initialises the module, then sets ready
mountRustDemo ==
    /\ ready' = wasm_default(wasmReady[1])
    /\ wasmReady' = [wasmReady EXCEPT ![1] = wasm_default(wasmReady[1])]
    /\ UNCHANGED <<rng, user_secrets, file_metadata, file_dek, bucket, sentBlobs,
                   sentAtoms, identity, issued, encryptions, tampered, showModal,
                   setupError, selectedFile, modal, decryptCall, verifyResult,
                   uploadResult, nRaw, hexVars, pathVars, flightVars, authVars, asyncVars, shown, deriveVars, cryptoCalls>>

\* RustDemo: the button is rendered once ready is set
greet ==
    /\ ready
    /\ cryptoCalls' = cryptoCalls \cup {[fn |-> "greet", ready |-> wasmReady[1]]}
    /\ UNCHANGED <<rng, user_secrets, file_metadata, file_dek, bucket, sentBlobs,
                   sentAtoms, identity, issued, encryptions, tampered, showModal,
                   setupError, selectedFile, modal, decryptCall, verifyResult,
                   uploadResult, nRaw, hexVars, pathVars, flightVars, authVars, asyncVars, shown, deriveVars, wasmReady, ready>>

\* ------------------------------------------------ sessions, server actions
\* the login form: the session becomes that of the user who logs in
login(user) ==
    /\ session = 0
    /\ session' = user
    /\ UNCHANGED <<rng, user_secrets, file_metadata, file_dek, bucket, sentBlobs,
                   sentAtoms, identity, issued, encryptions, tampered, showModal,
                   setupError, selectedFile, modal, decryptCall, verifyResult,
                   uploadResult, nRaw, hexVars, pathVars, flightVars, asyncVars, returned, shown, deriveVars,
                   wasmVars, ready>>

\* signOut: supabase.auth.signOut()
signOut ==
    /\ session # 0
    /\ session' = 0
    /\ UNCHANGED <<rng, user_secrets, file_metadata, file_dek, bucket, sentBlobs,
                   sentAtoms, identity, issued, encryptions, tampered, showModal,
                   setupError, selectedFile, modal, decryptCall, verifyResult,
                   uploadResult, nRaw, hexVars, pathVars, flightVars, asyncVars, returned, shown, deriveVars,
                   wasmVars, ready>>

ServerActions == {"getUserFiles", "getFileDek", "getUserSecretsForDecryption",
                  "getUserSecrets"}

\* a request to a server action, with the session it arrives in: what comes
\* back, and whose records are in it.  userId is the argument of
\* getUserSecrets, fileId that of getFileDek.
callServerAction(action, userId, fileId, ok) ==
    /\ LET files == getUserFiles(ok)
           dek == getFileDek(fileId, ok)
           forDecryption == getUserSecretsForDecryption(ok)
           secrets == getUserSecrets(userId, ok)
       IN  returned' =
              CASE action = "getUserFiles" ->
                     [action |-> action, caller |-> currentUser,
                      success |-> files.success, data |-> files.files # <<>>,
                      owners |-> {files.files[k].uploader_id : k \in 1..Len(files.files)}]
                [] action = "getFileDek" ->
                     [action |-> action, caller |-> currentUser,
                      success |-> dek.success, data |-> dek.dek # NoDek,
                      owners |-> IF dek.dek # NoDek THEN {dek.dek.owner_id} ELSE {}]
                [] action = "getUserSecretsForDecryption" ->
                     [action |-> action, caller |-> currentUser,
                      success |-> forDecryption.success,
                      data |-> forDecryption.secrets # NoSecrets,
                      owners |-> IF forDecryption.secrets # NoSecrets
                                 THEN {forDecryption.secrets.user_id} ELSE {}]
                [] action = "getUserSecrets" ->
                     [action |-> action, caller |-> currentUser,
                      success |-> secrets # NoSecrets, data |-> secrets # NoSecrets,
                      owners |-> IF secrets # NoSecrets THEN {secrets.user_id} ELSE {}]
    /\ UNCHANGED <<rng, user_secrets, file_metadata, file_dek, bucket, sentBlobs,
                   sentAtoms, identity, issued, encryptions, tampered, showModal,
                   setupError, selectedFile, modal, decryptCall, verifyResult,
                   uploadResult, nRaw, hexVars, pathVars, flightVars, asyncVars, session, shown, deriveVars,
                   wasmVars, ready>>

\* ------------------------------------ the file cipher, invocation by step
\* where an invocation keeps the DEK it works with: in its own frame
dekSlot_static(inv) == 1

dekSlot(inv) == inv

Returned(inv) ==
    \/ invocations[inv].op = "encrypt" /\ invocations[inv].pc = 7
    \/ invocations[inv].op = "decrypt" /\ invocations[inv].pc = 4

\* a call site dispatches encrypt_file(plaintext, recipient_public_key)
encrypt_file_start(inv, plaintext) ==
    /\ user_secrets.present
    /\ invocations[inv].op = "none"
    /\ \A other \in 1..(inv - 1) : invocations[other].op # "none"
    /\ rng + 4 * (1 + Cardinality({other \in Invocations :
                        invocations[other].op = "encrypt" /\ ~Returned(other)}))
          <= MaxDraws
    /\ invocations' = [invocations EXCEPT ![inv] =
           [NoInvocation EXCEPT !.op = "encrypt", !.pc = 1, !.plaintext = plaintext,
                                !.key = user_secrets.public_key]]
    /\ UNCHANGED <<rng, user_secrets, file_metadata, file_dek, bucket, sentBlobs,
                   sentAtoms, identity, issued, encryptions, tampered, showModal,
                   setupError, selectedFile, modal, decryptCall, verifyResult,
                   uploadResult, nRaw, hexVars, pathVars, authVars, asyncVars, shown, deriveVars, wasmVars,
                   ready>>

\* the next step of 4.4 of an encrypt_file invocation; a step that draws
\* from the CSPRNG takes the next value, whoever drew the one before
encrypt_file_step(inv) ==
    /\ invocations[inv].op = "encrypt"
    /\ invocations[inv].pc \in {1, 2, 3, 4, 6}
    /\ LET v == invocations[inv]
           drawn == random_bytes(rng, 1)
           dek == invocations[dekSlot(inv)].dek
       IN  CASE v.pc = 1 ->
                  /\ rng < MaxDraws
                  /\ rng' = rng + 1
                  /\ invocations' = [invocations EXCEPT
                         ![dekSlot(inv)].dek = Atom("dek", drawn),
                         ![inv].draws = Append(v.draws, drawn),
                         ![inv].pc = 2]
             [] v.pc = 2 ->
                  /\ rng < MaxDraws
                  /\ rng' = rng + 1
                  /\ invocations' = [invocations EXCEPT
                         ![inv].envelope.file_nonce = Atom("nonce", drawn),
                         ![inv].envelope.encrypted_file_body =
                             aes256_gcm_encrypt(dek, Atom("nonce", drawn), v.plaintext),
                         ![inv].draws = Append(v.draws, drawn),
                         ![inv].pc = 3]
             [] v.pc = 3 ->
                  /\ rng < MaxDraws
                  /\ rng' = rng + 1
                  /\ invocations' = [invocations EXCEPT
                         ![inv].ephemeral_scalar = Atom("scalar", drawn),
                         ![inv].envelope.ephemeral_public_key =
                             x25519_public(Atom("scalar", drawn)),
                         ![inv].draws = Append(v.draws, drawn),
                         ![inv].pc = 4]
             [] v.pc = 4 ->
                  /\ rng' = rng
                  /\ invocations' = [invocations EXCEPT
                         ![inv].shared_secret =
                             x25519_diffie_hellman(v.ephemeral_scalar, v.key),
                         ![inv].pc = 6]
             [] v.pc = 6 ->
                  /\ rng < MaxDraws
                  /\ rng' = rng + 1
                  /\ invocations' = [invocations EXCEPT
                         ![inv].envelope.dek_nonce = Atom("nonce", drawn),
                         ![inv].envelope.encrypted_dek =
                             aes256_gcm_encrypt(v.shared_secret, Atom("nonce", drawn), dek),
                         ![inv].draws = Append(v.draws, drawn),
                         ![inv].ephemeral_scalar = NoAtom,
                         ![inv].shared_secret = NoAtom,
                         ![inv].pc = 7]
    /\ UNCHANGED <<user_secrets, file_metadata, file_dek, bucket, sentBlobs,
                   sentAtoms, identity, issued, encryptions, tampered, showModal,
                   setupError, selectedFile, modal, decryptCall, verifyResult,
                   uploadResult, nRaw, hexVars, pathVars, authVars, asyncVars, shown, deriveVars, wasmVars,
                   ready>>

\* a call site dispatches decrypt_file(envelope, recipient_private_key) on
\* the envelope an earlier invocation returned
decrypt_file_start(inv, source, recipient_private_key) ==
    /\ invocations[inv].op = "none"
    /\ \A other \in 1..(inv - 1) : invocations[other].op # "none"
    /\ invocations[source].op = "encrypt"
    /\ invocations[source].pc = 7
    /\ invocations' = [invocations EXCEPT ![inv] =
           [NoInvocation EXCEPT !.op = "decrypt", !.pc = 1, !.source = source,
                                !.key = recipient_private_key,
                                !.envelope = invocations[source].envelope]]
    /\ UNCHANGED <<rng, user_secrets, file_metadata, file_dek, bucket, sentBlobs,
                   sentAtoms, identity, issued, encryptions, tampered, showModal,
                   setupError, selectedFile, modal, decryptCall, verifyResult,
                   uploadResult, nRaw, hexVars, pathVars, authVars, asyncVars, shown, deriveVars, wasmVars,
                   ready>>

\* the next step of 4.4 of a decrypt_file invocation
decrypt_file_step(inv) ==
    /\ invocations[inv].op = "decrypt"
    /\ invocations[inv].pc \in {1, 2, 3}
    /\ LET v == invocations[inv]
           unwrap == aes256_gcm_decrypt(v.shared_secret, v.envelope.dek_nonce,
                                        v.envelope.encrypted_dek)
           body == aes256_gcm_decrypt(invocations[dekSlot(inv)].dek,
                                      v.envelope.file_nonce,
                                      v.envelope.encrypted_file_body)
       IN  CASE v.pc = 1 ->
                  invocations' = [invocations EXCEPT
                      ![inv].shared_secret =
                          x25519_diffie_hellman(v.key, v.envelope.ephemeral_public_key),
                      ![inv].pc = 2]
             [] v.pc = 2 ->
                  IF ~unwrap.ok
                  THEN invocations' = [invocations EXCEPT
                           ![inv].result = [ok |-> FALSE, err |-> "KeyUnwrapFailed",
                                            pt |-> NoAtom],
                           ![inv].shared_secret = NoAtom,
                           ![inv].pc = 4]
                  ELSE invocations' = [invocations EXCEPT
                           ![dekSlot(inv)].dek = unwrap.pt,
                           ![inv].shared_secret = NoAtom,
                           ![inv].pc = 3]
             [] v.pc = 3 ->
                  invocations' = [invocations EXCEPT
                      ![inv].result =
                          IF body.ok THEN [ok |-> TRUE, err |-> "", pt |-> body.pt]
                          ELSE [ok |-> FALSE, err |-> "ContentDecryptFailed",
                                pt |-> NoAtom],
                      ![inv].pc = 4]
    /\ UNCHANGED <<rng, user_secrets, file_metadata, file_dek, bucket, sentBlobs,
                   sentAtoms, identity, issued, encryptions, tampered, showModal,
                   setupError, selectedFile, modal, decryptCall, verifyResult,
                   uploadResult, nRaw, hexVars, pathVars, authVars, asyncVars, shown, deriveVars, wasmVars,
                   ready>>

\* the identity and the files: every outcome of every handler that sends
Next ==
    \/ \E password \in 0..MaxPassword, confirmPassword \in Passwords, dbOk \in BOOLEAN :
          handleSubmit(1, password, confirmPassword, "ok", dbOk)
    \/ \E plaintext \in Plaintexts, filePath \in Paths, rpcOk \in BOOLEAN :
          uploadEncrypted(Atom("plain", plaintext), filePath, rpcOk)
    \/ \E file \in SelectableFiles, filePath \in Paths : handleUpload(file, filePath)
    \/ \E password \in Passwords : handleVerify(password)

Spec == Init /\ [][Next]_vars

\* viewing stored files: the identity is set up, files are uploaded to fresh
\* paths, the storage side alters a field, the user opens and decrypts
NextView ==
    \/ \E password \in Passwords : handleSubmit(1, password, password, "ok", TRUE)
    \/ \E plaintext \in Plaintexts :
          uploadEncrypted(Atom("plain", plaintext), Len(file_metadata) + 1, TRUE)
    \/ \E f \in FileIds, field \in Fields :
          \E value \in Replacements(f, field) : Tamper(f, field, value)
    \/ \E f \in FileIds : selectFile(f)
    \/ \E password \in Passwords, keysOk \in BOOLEAN, downloadOk \in BOOLEAN :
          handleDecrypt(password, keysOk, downloadOk)
    \/ handleClose

SpecView == Init /\ [][NextView]_vars

\* decoding one hex field, as FileDecryptionModal.handleDecrypt does for each
decodeField ==
    /\ ~hexResult.called
    /\ LET r == HexToUint8Array(hexStr)
       IN  hexResult' = [called |-> TRUE, threw |-> r.threw, error |-> r.error,
                         bytes |-> r.bytes]
    /\ UNCHANGED <<rng, user_secrets, file_metadata, file_dek, bucket, sentBlobs,
                   sentAtoms, identity, encryptions, issued, tampered, showModal, setupError,
                   selectedFile, modal, decryptCall, verifyResult, uploadResult, nRaw,
                   hexStr, pathVars, flightVars, authVars, asyncVars, shown, deriveVars, wasmVars, ready>>

InitHex ==
    /\ InitCore
    /\ InitNoPath
    /\ hexStr \in StringsUpTo(MaxHexLen)
    /\ hexResult = NoHexResult

NextHex == decodeField

SpecHex == InitHex /\ [][NextHex]_vars

\* ------------------------------------------------------------ storage paths
\* A path or URL is the sequence of its segments between slashes:
\* "files/a.bin" is <<"files", "a.bin">>, and a leading slash is an empty
\* first segment.
Segments == {"files", "storage", "v1", "object", "public"}
StoragePaths == UNION {[1..n -> Segments] : n \in 1..MaxSegments}

\* the address of the project, which holds no storage route
supabaseUrl == <<"https:", "", "project.supabase.co">>

\* storage.from(bucketName).getPublicUrl(path)
getPublicUrl(bucketName, path) ==
    supabaseUrl \o <<"storage", "v1", "object", "public", bucketName>> \o path

\* uploadFile returns the public URL of the uploaded object as filePath
uploadFile_filePath(bucketName, path) == getPublicUrl(bucketName, path)

\* "/storage/v1/object/public/storage/": it starts and ends with a slash, so
\* it is found where these five segments have a segment before and after them
publicPrefix == <<"storage", "v1", "object", "public", "storage">>

\* filePath.indexOf(publicPrefix): the first place it is found, 0 if nowhere
indexOf(filePath) ==
    LET found == {i \in 2..Len(filePath) :
                     /\ i + Len(publicPrefix) <= Len(filePath)
                     /\ SubSeq(filePath, i, i + Len(publicPrefix) - 1) = publicPrefix}
    IN  IF found = {} THEN 0 ELSE CHOOSE i \in found : \A j \in found : i <= j

extractStoragePath(filePath) ==
    LET idx == indexOf(filePath)
    IN  IF idx # 0
        THEN SubSeq(filePath, idx + Len(publicPrefix), Len(filePath))
        ELSE IF Len(filePath) >= 2 /\ filePath[1] = "storage"
             THEN Tail(filePath)
             ELSE filePath

FilePathForms == {"publicUrl", "bucketAndPath", "asIs"}

\* the file_path column is written for the uploaded object
insertFilePath(form) ==
    /\ file_path = NoFilePath
    /\ file_path' =
          [form |-> form,
           value |-> CASE form = "publicUrl" -> uploadFile_filePath("storage", objectPath)
                       [] form = "bucketAndPath" -> <<"storage">> \o objectPath
                       [] form = "asIs" -> objectPath]
    /\ UNCHANGED <<rng, user_secrets, file_metadata, file_dek, bucket, sentBlobs,
                   sentAtoms, identity, encryptions, issued, tampered, showModal, setupError,
                   selectedFile, modal, decryptCall, verifyResult, uploadResult, nRaw,
                   hexVars, objectPath, storagePath, flightVars, authVars, asyncVars, shown,
                   deriveVars, wasmVars, ready>>

\* handleDecrypt, step 2: the path the download is asked for
downloadPath ==
    /\ file_path # NoFilePath
    /\ ~storagePath.called
    /\ storagePath' = [called |-> TRUE, value |-> extractStoragePath(file_path.value)]
    /\ UNCHANGED <<rng, user_secrets, file_metadata, file_dek, bucket, sentBlobs,
                   sentAtoms, identity, encryptions, issued, tampered, showModal, setupError,
                   selectedFile, modal, decryptCall, verifyResult, uploadResult, nRaw,
                   hexVars, objectPath, file_path, flightVars, authVars, asyncVars, shown,
                   deriveVars, wasmVars, ready>>

InitPath ==
    /\ InitCore
    /\ objectPath \in StoragePaths
    /\ file_path = NoFilePath
    /\ storagePath = NoStoragePath
    /\ hexStr = <<>>
    /\ hexResult = NoHexResult

NextPath ==
    \/ \E form \in FilePathForms : insertFilePath(form)
    \/ downloadPath

SpecPath == InitPath /\ [][NextPath]_vars

\* setting up the identity: the page is open in several tabs, each loaded at
\* some time, and the form is submitted in any of them
NextSetup ==
    \/ \E tab \in Tabs, ok \in BOOLEAN : openPage(tab, ok)
    \/ \E tab \in Tabs, password \in 0..MaxPassword, confirmPassword \in Passwords,
          dbOk \in BOOLEAN : handleSubmit(tab, password, confirmPassword, "ok", dbOk)

SpecSetup == Init /\ [][NextSetup]_vars

\* the setup form with every outcome of its stages: the module may fail to
\* load, the key generation may throw, the save may fail
NextSubmit ==
    \/ \E tab \in Tabs, ok \in BOOLEAN : openPage(tab, ok)
    \/ \E tab \in Tabs, password \in 0..1, confirmPassword \in 1..2, wasm \in WasmOutcomes,
          dbOk \in BOOLEAN : handleSubmit(tab, password, confirmPassword, wasm, dbOk)

SpecSubmit == Init /\ [][NextSubmit]_vars

Salts == {Atom("salt", e) : e \in 1..MaxSalt}

\* deriving keys: MasterKeyDeriver is used with any password, signed in as any
\* user, between setups and page loads
NextDerive ==
    \/ \E userInput \in Passwords, email \in Salts : handleDerive(userInput, email)
    \/ \E password \in Passwords, dbOk \in BOOLEAN :
          handleSubmit(1, password, password, "ok", dbOk)
    \/ \E ok \in BOOLEAN : openPage(1, ok)

SpecDerive == Init /\ [][NextDerive]_vars

\* every handler that calls into the WASM module, in one tab that can be
\* reloaded at any time; one password and one file content are used
NextCalls ==
    \/ openPage(1, TRUE)
    \/ handleSubmit(1, 1, 1, "ok", TRUE)
    \/ uploadEncrypted(Atom("plain", 1), Len(file_metadata) + 1, TRUE)
    \/ \E f \in FileIds : selectFile(f)
    \/ handleDecrypt(1, TRUE, TRUE)
    \/ handleClose
    \/ handleVerify(1)
    \/ handleDerive(1, userEmail)
    \/ mountRustDemo
    \/ greet

SpecCalls == Init /\ [][NextCalls]_vars

\* the file cipher under concurrency: once the identity is set up, call
\* sites dispatch encrypt_file and decrypt_file invocations whose steps
\* interleave in any order
NextCore ==
    \/ handleSubmit(1, 1, 1, "ok", TRUE)
    \/ \E inv \in Invocations, plaintext \in Plaintexts :
          encrypt_file_start(inv, Atom("plain", plaintext))
    \/ \E inv \in Invocations : encrypt_file_step(inv)
    \/ \E inv \in Invocations, source \in Invocations :
          decrypt_file_start(inv, source, identity.scalar)
    \/ \E inv \in Invocations : decrypt_file_step(inv)

SpecCore == Init /\ [][NextCore]_vars

\* who is asking: user 1 sets up the identity and uploads files; sessions
\* end and begin; server actions are requested in whatever session there is,
\* with any argument
NextAuth ==
    \/ \E password \in Passwords : session = 1 /\ handleSubmit(1, password, password, "ok", TRUE)
    \/ \E plaintext \in Plaintexts :
          /\ session = 1
          /\ uploadEncrypted(Atom("plain", plaintext), Len(file_metadata) + 1, TRUE)
    \/ \E user \in Users : login(user)
    \/ signOut
    \/ \E action \in ServerActions, userId \in Users, fileId \in 1..MaxFiles,
          ok \in BOOLEAN : callServerAction(action, userId, fileId, ok)

SpecAuth == Init /\ [][NextAuth]_vars

\* viewing a file, await by await: the identity is set up, a file is
\* uploaded, the storage side alters a field or removes nothing, the user
\* opens the modal, submits a password, and each awaited call settles either way
NextModal ==
    \/ handleSubmit(1, 1, 1, "ok", TRUE)
    \/ uploadEncrypted(Atom("plain", 1), Len(file_metadata) + 1, TRUE)
    \/ \E f \in FileIds, field \in {"file_nonce", "encrypted_file_body"} :
          \E value \in Replacements(f, field) : Tamper(f, field, value)
    \/ \E f \in FileIds : selectFile(f)
    \/ \E password \in Passwords : handleDecrypt_start(password)
    \/ \E keysOk \in BOOLEAN : handleDecrypt_keys(keysOk)
    \/ \E downloadOk \in BOOLEAN : handleDecrypt_download(downloadOk)
    \/ \E wasmOk \in BOOLEAN : handleDecrypt_decrypt(wasmOk)
    \/ handleClose

SpecModal == Init /\ [][NextModal]_vars

\* -------------------------------------------------- handlers and loading
\* the awaits of each component's handler, all inside its try block:
\* handleVerify awaits getUserSecrets, the import and default(); the test
\* page's handleDecrypt and handleEncrypt await these and file.arrayBuffer();
\* handleSubmit awaits the import, default() and saveUserSecrets; handleDerive
\* the import and default(); handleUpload the storage upload
Awaits(c) ==
    CASE c = "VerifyPrivateKey" -> 3
      [] c = "FileDecryptor" -> 4
      [] c = "FileEncryptor" -> 4
      [] c = "SetupMasterKeyModal" -> 3
      [] c = "MasterKeyDeriver" -> 2
      [] c = "StorageBucketUploader" -> 1

\* as triggerEnabled, with buttons and fields that stay enabled while loading
triggerEnabled_always(loading) == TRUE

\* every button and field that calls the handler has disabled={loading ...}
triggerEnabled(loading) == ~loading

\* as loadingAfter, with setLoading(false) at the end of the try block
\* instead of in a finally block
loadingAfter_onlyOnSuccess(resolved) == ~resolved

\* finally { setLoading(false) }
loadingAfter(resolved) == FALSE

\* a click or Enter starts the handler of a component, which runs up to its
\* first await: setLoading(true)
startHandler(c) ==
    /\ triggerEnabled(handlers[c].loading)
    /\ handlers[c].runs < MaxRuns
    /\ Cardinality({d \in Components \ {c} : handlers[d].runs > 0}) < MaxInFlight
    /\ handlers' = [handlers EXCEPT ![c] =
          [loading |-> TRUE, awaiting |-> 1, runs |-> handlers[c].runs + 1]]
    /\ UNCHANGED <<rng, user_secrets, file_metadata, file_dek, bucket, sentBlobs,
                   sentAtoms, identity, encryptions, issued, tampered, showModal,
                   setupError, selectedFile, modal, decryptCall, verifyResult, uploadResult,
                   nRaw, hexVars, pathVars, flightVars, authVars, attempt, setupCalls, shown,
                   deriveVars, wasmVars, ready>>

\* the call a handler awaits has settled.  Resolved, the handler goes on to
\* its next await, or past the last one to the end of the try block; rejected
\* (or resolved with a result the handler throws on), it goes to the catch
\* block.  Both ways end in the finally block.
settleAwait(c, resolved) ==
    /\ handlers[c].awaiting > 0
    /\ handlers' = [handlers EXCEPT ![c] =
          IF resolved /\ handlers[c].awaiting < Awaits(c)
          THEN [handlers[c] EXCEPT !.awaiting = handlers[c].awaiting + 1]
          ELSE [loading |-> loadingAfter(resolved), awaiting |-> 0,
                runs |-> handlers[c].runs - 1]]
    /\ UNCHANGED <<rng, user_secrets, file_metadata, file_dek, bucket, sentBlobs,
                   sentAtoms, identity, encryptions, issued, tampered, showModal,
                   setupError, selectedFile, modal, decryptCall, verifyResult, uploadResult,
                   nRaw, hexVars, pathVars, flightVars, authVars, attempt, setupCalls, shown,
                   deriveVars, wasmVars, ready>>

\* the components of the page in use together, each handler followed await
\* by await
NextProgress ==
    \/ handleSubmit(1, 1, 1, "ok", TRUE)
    \/ Len(file_metadata) = 0 /\ uploadEncrypted(Atom("plain", 1), 1, TRUE)
    \/ \E f \in FileIds : selectFile(f)
    \/ \E password \in Passwords : handleDecrypt_start(password)
    \/ \E keysOk \in BOOLEAN : handleDecrypt_keys(keysOk)
    \/ \E downloadOk \in BOOLEAN : handleDecrypt_download(downloadOk)
    \/ \E wasmOk \in BOOLEAN : handleDecrypt_decrypt(wasmOk)
    \/ handleClose
    \/ \E c \in Components : startHandler(c)
    \/ \E c \in Components, resolved \in BOOLEAN : settleAwait(c, resolved)

\* every awaited call resolves or rejects
Settles ==
    /\ \A c \in Components : WF_vars(\E resolved \in BOOLEAN : settleAwait(c, resolved))
    /\ WF_vars(\E keysOk \in BOOLEAN : handleDecrypt_keys(keysOk))
    /\ WF_vars(\E downloadOk \in BOOLEAN : handleDecrypt_download(downloadOk))
    /\ WF_vars(\E wasmOk \in BOOLEAN : handleDecrypt_decrypt(wasmOk))

SpecProgress == Init /\ [][NextProgress]_vars /\ Settles

TypeOK ==
    /\ rng \in 0..MaxDraws
    /\ Len(file_metadata) = Len(file_dek)
    /\ Len(issued) >= Len(file_metadata)
    /\ Len(encryptions) <= MaxDraws
    /\ Len(file_metadata) <= MaxFiles

\* ------------------------------------------------------------- properties
EnvelopeFields == {"encrypted_file_body", "file_nonce", "encrypted_dek", "dek_nonce",
                   "ephemeral_public_key"}
WrapFields == {"encrypted_dek", "dek_nonce", "ephemeral_public_key"}
BodyFields == {"encrypted_file_body", "file_nonce"}

\* the last wasm.decrypt_file call was given the password of the setup
RightPassword == decryptCall.called /\ decryptCall.password = identity.password

\* C1 (round trip): a file encrypted to the identity's public key and stored
\* unaltered decrypts, under the setup password, to exactly the plaintext that
\* was encrypted; the empty plaintext included.
C1_RoundTrip ==
    (RightPassword /\ decryptCall.altered \cap EnvelopeFields = {})
        => /\ decryptCall.result.success
           /\ decryptCall.result.decrypted_data = IssuedFor(decryptCall.file).plaintext

C1_Witness ==
    /\ RightPassword
    /\ decryptCall.altered = {}
    /\ decryptCall.result.success
    /\ decryptCall.result.decrypted_data = Atom("plain", 0)

\* C2 (wrong password rejection): unlocking the stored identity with a
\* password other than the setup password reports WrongPasswordOrCorrupted
\* and yields no private key.
C2_WrongPassword ==
    (/\ verifyResult.set
     /\ verifyResult.error # "No secrets found for this user"
     /\ verifyResult.password # identity.password)
        => /\ ~verifyResult.success
           /\ verifyResult.error = "WrongPasswordOrCorrupted"
           /\ verifyResult.privateKey = NoAtom

C2_Witness ==
    /\ verifyResult.set
    /\ identity.password # 0
    /\ verifyResult.password # identity.password
    /\ verifyResult.error = "WrongPasswordOrCorrupted"

C4_ErrorKinds ==
    /\ (RightPassword /\ decryptCall.altered \cap WrapFields # {})
          => /\ decryptCall.result.error_message = "KeyUnwrapFailed"
             /\ decryptCall.result.steps = <<"unlock", "dh", "unwrap">>
    /\ (RightPassword /\ decryptCall.altered \cap BodyFields # {})
          => /\ decryptCall.result.error_message = "ContentDecryptFailed"
             /\ decryptCall.result.steps = <<"unlock", "dh", "unwrap", "body">>
    /\ \A i \in 1..Len(issued) : \A n \in 1..MaxDraws :
          Atom("scalar", n) # identity.scalar
             => LET d == decrypt_file(issued[i].envelope, Atom("scalar", n))
                IN  d.err = "KeyUnwrapFailed" /\ d.steps = <<"dh", "unwrap">>

C4_Witness ==
    /\ RightPassword
    /\ decryptCall.altered = {"file_nonce"}
    /\ decryptCall.result.error_message = "ContentDecryptFailed"

\* C5 (zero knowledge): every blob that left the browser is a ciphertext and
\* every other byte field that left it is a nonce, a public key, a salt or a
\* hash.
C5_ZeroKnowledge ==
    /\ \A b \in sentBlobs : IsCiphertext(b)
    /\ \A a \in sentAtoms : a.t \in {"nonce", "point", "salt", "hash"}

C7_FreshKeys ==
    /\ \A i, j \in 1..Len(issued) :
          i < j => /\ issued[i].dek # issued[j].dek
                   /\ issued[i].ephemeral_scalar # issued[j].ephemeral_scalar
                   /\ issued[i].envelope.ephemeral_public_key
                        # issued[j].envelope.ephemeral_public_key
                   /\ issued[i].envelope.encrypted_dek.pt
                        # issued[j].envelope.encrypted_dek.pt
    /\ \A i \in 1..Len(issued) :
          LET e == issued[i].ephemeral_scalar
              env == issued[i].envelope
          IN  /\ e \notin sentAtoms
              /\ \A b \in sentBlobs : e \notin {b.key, b.nonce, b.pt}
              /\ e \notin {env.file_nonce, env.dek_nonce, env.ephemeral_public_key,
                           env.encrypted_file_body.pt, env.encrypted_file_body.key,
                           env.encrypted_dek.pt, env.encrypted_dek.key}

C7_Witness ==
    /\ Len(issued) >= 2
    /\ issued[1].plaintext = issued[2].plaintext
    /\ issued[1].file_id # 0
    /\ issued[2].file_id # 0

\* C8 (fingerprint compared): a decryption is shown as done only when the
\* fingerprint of the recovered plaintext equals the stored file_hash.
C8_FingerprintCompared ==
    modal.step = "done" => decryptCall.result.file_hash_hex = decryptCall.stored_hash

\* C9 (hash stability): the fingerprint returned by a successful decryption
\* equals the fingerprint computed when the file was encrypted.
C9_HashStable ==
    (decryptCall.called /\ decryptCall.result.success)
        => decryptCall.result.file_hash_hex = IssuedFor(decryptCall.file).hash

C9_Witness ==
    /\ decryptCall.called
    /\ decryptCall.result.success
    /\ decryptCall.result.file_hash_hex = fingerprint(Atom("plain", 1))
    /\ IssuedFor(decryptCall.file).hash = fingerprint(Atom("plain", 1))

\* C11 (generic messages): the display does not tell WrongPasswordOrCorrupted
\* from KeyUnwrapFailed, nor ContentDecryptFailed from InvalidFormat: two
\* errors of one pair are shown with the same heading and the same message.
SameCausePair(k1, k2) ==
    \/ {k1, k2} \subseteq {"WrongPasswordOrCorrupted", "KeyUnwrapFailed"}
    \/ {k1, k2} \subseteq {"ContentDecryptFailed", "InvalidFormat"}

C11_GenericMessages ==
    \A a, b \in shown :
        SameCausePair(a.kind, b.kind)
            => a.heading = b.heading /\ a.message = b.message

\* C12 (no partial result): an error carries no result data.  A modal in
\* step error holds no decrypted data and no blob URL; a failed uploadFile
\* returns an empty path and stores nothing; a failed getFileDek, getUserFiles
\* or getUserSecretsForDecryption returns null or no rows; a failed WASM
\* decryption returns no plaintext and no fingerprint.
C12_NoPartialResult ==
    /\ modal.step = "error"
          => modal.decryptedData = NoAtom /\ ~modal.decryptedBlobUrl
    /\ (decryptCall.called /\ ~decryptCall.result.success)
          => /\ decryptCall.result.decrypted_data = NoAtom
             /\ decryptCall.result.file_hash_hex = NoAtom
    /\ \A file \in SelectableFiles, filePath \in Paths :
          LET up == uploadFile(file, filePath)
          IN  ~up.success => up.filePath = 0 /\ up.bucket = bucket
    /\ \A ok \in BOOLEAN :
          /\ \A f \in 0..(MaxFiles + 1) :
                ~getFileDek(f, ok).success => getFileDek(f, ok).dek = NoDek
          /\ ~getUserFiles(ok).success => getUserFiles(ok).files = <<>>
          /\ ~getUserSecretsForDecryption(ok).success
                => getUserSecretsForDecryption(ok).secrets = NoSecrets

C12_Witness ==
    /\ modal.step = "error"
    /\ modal.errorMessage = "ContentDecryptFailed"
    /\ decryptCall.called
    /\ ~decryptCall.result.success
    /\ \E filePath \in Paths : bucket[filePath] # NoBlob

\* C13 (no secret outlives its call): once a handler has returned, no
\* component state holds a decrypted private key, a password-derived key or
\* a DEK.
SecretKinds == {"scalar", "dk", "dek"}

C13_NoSecretHeld ==
    /\ verifyResult.privateKey.t \notin SecretKinds
    /\ modal.decryptedData.t \notin SecretKinds

C15_NeverMutated ==
    [][/\ \A p \in Paths : bucket[p] # NoBlob => bucket'[p] = bucket[p]
       /\ \A f \in 1..Len(file_metadata) :
             /\ f <= Len(file_metadata')
             /\ file_metadata'[f] = file_metadata[f]
             /\ file_dek'[f] = file_dek[f]
       /\ (nRaw' # nRaw /\ bucket' = bucket)
             => ~uploadResult'.success /\ uploadResult'.path = 0
       /\ (nRaw' # nRaw /\ bucket' # bucket) => uploadResult'.success
       /\ \A i \in 1..Len(issued) :
             (Len(issued') > Len(issued) /\ bucket' # bucket)
                => issued'[Len(issued')].envelope # issued[i].envelope]_vars

C15_Witness ==
    /\ uploadResult.set
    /\ ~uploadResult.success
    /\ \E i, j \in 1..Len(issued) :
          /\ i < j
          /\ issued[i].plaintext = issued[j].plaintext
          /\ issued[i].file_id # 0
          /\ issued[j].file_id # 0
          /\ bucket[file_metadata[issued[i].file_id].file_path]
                # bucket[file_metadata[issued[j].file_id].file_path]

C20_InitBeforeCalls ==
    [][/\ \A c \in cryptoCalls' : c.ready
       /\ ready' => wasmReady'[1]
       /\ (wasmReady[1] /\ ~wasmReady'[1])
             => ~ready' /\ verifyResult' = NoVerify /\ modal' = IdleModal
       /\ (~ready /\ ready')
             => UNCHANGED <<rng, user_secrets, file_metadata, file_dek, bucket,
                            encryptions, derivations, masterKey, decryptCall,
                            modal, verifyResult, cryptoCalls>>
       /\ (verifyResult'.set /\ verifyResult'.error # "No secrets found for this user")
             => verifyResult'.success /\ verifyResult'.privateKey = identity'.scalar
       /\ decryptCall'.called
             => /\ decryptCall'.result.success
                /\ decryptCall'.result.decrypted_data = Atom("plain", 1)]_vars

C20_Witness ==
    /\ {c.fn : c \in cryptoCalls}
          = {"encrypt_master_key", "encrypt_file", "decrypt_file", "decrypt_private_key",
             "master_key_bytes_to_hex", "greet"}
    /\ modal.step = "done"
    /\ verifyResult.success
    /\ ready

\* C21 (invocations are independent under concurrency): however the steps
\* of concurrently running encrypt_file and decrypt_file invocations
\* interleave, no two invocations get the same value from the CSPRNG, every
\* envelope returned is the one its invocation makes from its own plaintext and
\* its own draws and decrypts to that plaintext, and every decrypt_file
\* invocation returns what decrypt_file returns for its envelope and key when
\* run alone.
C21_Independent ==
    \A inv \in Invocations :
        LET v == invocations[inv]
            alone == decrypt_file(v.envelope, v.key)
        IN  /\ \A other \in Invocations \ {inv} :
                  \A k \in 1..Len(v.draws), m \in 1..Len(invocations[other].draws) :
                      v.draws[k] # invocations[other].draws[m]
            /\ (v.op = "encrypt" /\ v.pc = 7)
                  => /\ v.envelope.encrypted_file_body
                          = aes256_gcm_encrypt(Atom("dek", v.draws[1]),
                                               Atom("nonce", v.draws[2]), v.plaintext)
                     /\ v.envelope.encrypted_dek.pt = Atom("dek", v.draws[1])
                     /\ decrypt_file(v.envelope, identity.scalar).ok
                     /\ decrypt_file(v.envelope, identity.scalar).pt = v.plaintext
            /\ (v.op = "decrypt" /\ v.pc = 4)
                  => /\ v.result = [ok |-> alone.ok, err |-> alone.err, pt |-> alone.pt]
                     /\ v.result.ok
                     /\ v.result.pt = invocations[v.source].plaintext

\* two encrypt_file invocations whose draws alternate, and a decrypt_file
\* invocation that ran from start to return while the second was running
C21_Witness ==
    /\ Returned(1)
    /\ Returned(3)
    /\ invocations[1].op = "encrypt"
    /\ invocations[2].op = "encrypt"
    /\ invocations[2].pc = 6
    /\ invocations[1].plaintext # invocations[2].plaintext
    /\ invocations[1].draws[1] < invocations[2].draws[1]
    /\ invocations[2].draws[1] < invocations[1].draws[2]
    /\ invocations[1].draws[4] < invocations[2].draws[3]
    /\ invocations[3].op = "decrypt"
    /\ invocations[3].source = 1
    /\ invocations[3].result.ok

\* C22 (own records only): getUserFiles, getFileDek,
\* getUserSecretsForDecryption and getUserSecrets return only records owned by
\* the authenticated caller, and with no authenticated user they return a
\* failure and no data.
C22_OwnRecordsOnly ==
    /\ returned.owners \subseteq {returned.caller}
    /\ (returned.action # "" /\ returned.caller = 0)
          => ~returned.success /\ ~returned.data

\* the setStep calls of a decryption attempt, in the order of the source
StepOrder == <<"fetching-keys", "downloading-file", "decrypting-key", "decrypting-file",
               "done">>
\* the call made on entering each step
CallOrder == <<"getFileDek", "getUserSecretsForDecryption", "download", "wasm.default",
               "decrypt_file">>

IsPrefix(a, b) == Len(a) <= Len(b) /\ a = SubSeq(b, 1, Len(a))

\* the steps an attempt went through after the one it started from, without
\* a closing error
InProgressSteps(steps) ==
    LET rest == SubSeq(steps, 2, Len(steps))
    IN  IF rest # <<>> /\ rest[Len(rest)] = "error"
        THEN SubSeq(rest, 1, Len(rest) - 1)
        ELSE rest

\* what holds of every attempt, wherever it started
StepsInOrder ==
    (attempt.steps # <<>> /\ modal.step # "idle")
        => LET inProgress == InProgressSteps(attempt.steps)
               n == Len(inProgress)
           IN  /\ modal.step = attempt.steps[Len(attempt.steps)]
               /\ n >= 1
               /\ IsPrefix(inProgress, StepOrder)
               /\ modal.step = "error" => n <= 4
               /\ IsPrefix(attempt.calls, CallOrder)
               /\ n <= 3 => Len(attempt.calls) = n + 1
               /\ n >= 4 => Len(attempt.calls) \in {4, 5}
               /\ "download" \in {attempt.calls[k] : k \in 1..Len(attempt.calls)}
                     => attempt.dek # NoDek /\ attempt.secrets # NoSecrets
               /\ "decrypt_file" \in {attempt.calls[k] : k \in 1..Len(attempt.calls)}
                     => attempt.encryptedData # NoBlob
               /\ modal.step = "done"
                     => attempt.calls = CallOrder /\ inProgress = StepOrder

\* C23 (step order, as stated): a decryption attempt passes through the
\* steps idle, fetching-keys, downloading-file, decrypting-key,
\* decrypting-file, done in that order, leaving for error from any step in
\* progress; no step is skipped and no step is entered after an earlier one
\* failed.
C23_StepOrderFromIdle ==
    /\ StepsInOrder
    /\ attempt.steps # <<>> => attempt.steps[1] = "idle"

\* C23 (step order, amended): a decryption attempt starts from idle or, as
\* a retry, from error, and then passes through fetching-keys,
\* downloading-file, decrypting-key, decrypting-file, done in that order,
\* leaving for error from any step in progress; no step is skipped and no step
\* is entered after an earlier one failed: no download when the key fetch
\* failed, no decrypt_file call when the download failed.
C23_StepOrder ==
    /\ StepsInOrder
    /\ attempt.steps # <<>> => attempt.steps[1] \in {"idle", "error"}

C23_Witness ==
    /\ modal.step = "done"
    /\ attempt.steps = <<"error">> \o StepOrder
    /\ attempt.calls = CallOrder
    /\ \E d \in shown : d.kind = "WrongPasswordOrCorrupted"

\* C24 (closing leaves nothing behind): the modal is closed only when no
\* attempt is in progress, and the step that closes it leaves the password and
\* the error message empty, decryptedData null, no blob URL unrevoked, the step
\* idle and no file selected; while no file is selected the modal holds nothing.
C24_CloseLeavesNothing ==
    [][/\ (selectedFile # 0 /\ selectedFile' = 0)
             => /\ ~isLoading(modal.step)
                /\ attempt.pc = "none"
                /\ attempt.runs = 0
                /\ modal'.password = 0
                /\ modal'.errorMessage = ""
                /\ modal'.decryptedData = NoAtom
                /\ ~modal'.decryptedBlobUrl
                /\ modal'.urls = 0
                /\ modal'.step = "idle"
       /\ selectedFile' = 0 => modal' = IdleModal]_vars

\* the modal was closed after a decryption that was shown
C24_Witness ==
    /\ selectedFile = 0
    /\ modal = IdleModal
    /\ attempt.steps = <<"error">> \o StepOrder
    /\ decryptCall.result.decrypted_data = Atom("plain", 1)

\* C10 (invalid hex rejected): a hex field with a character that is not a
\* hex digit, or of odd length, makes the decoding fail and yields no bytes.
HexDigits == {"0", "a", "A", "f", "F"}
HasNonHexChar(str) == \E k \in 1..Len(str) : str[k] \notin HexDigits

C10_InvalidFormat ==
    (hexResult.called
       /\ (HasNonHexChar(cleanHexOf(hexStr)) \/ Len(cleanHexOf(hexStr)) % 2 # 0))
        => hexResult.threw /\ hexResult.bytes = <<>>

\* the value of a hex digit, and a string with the case of its letters changed
HexValue(c) ==
    CASE c = "0" -> 0
      [] c = "a" -> 10
      [] c = "A" -> 10
      [] c = "f" -> 15
      [] c = "F" -> 15

SwapCase(str) ==
    [k \in 1..Len(str) |->
        CASE str[k] = "a" -> "A"
          [] str[k] = "A" -> "a"
          [] str[k] = "F" -> "f"
          [] str[k] = "f" -> "F"
          [] OTHER -> str[k]]

\* the string without the prefix "\x", if it has it
Payload(str) ==
    IF Len(str) >= 2 /\ str[1] = "\\" /\ str[2] = "x" THEN SubSeq(str, 3, Len(str)) ELSE str

\* C25 (hex decoding): an even-length string of hex digits, with or without
\* the prefix "\x", decodes to half as many bytes, the i-th being the value of
\* the i-th pair of digits; the same digits in the other case decode to the
\* same bytes; the empty string decodes to the empty array; a string of odd
\* length makes the decoding throw.
C25_HexDecodes ==
    hexResult.called
        => LET h == Payload(hexStr)
           IN  /\ (~HasNonHexChar(h) /\ Len(h) % 2 = 0)
                     => /\ ~hexResult.threw
                        /\ Len(hexResult.bytes) = Len(h) \div 2
                        /\ \A i \in 1..(Len(h) \div 2) :
                              hexResult.bytes[i]
                                 = 16 * HexValue(h[2 * i - 1]) + HexValue(h[2 * i])
                        /\ HexToUint8Array(SwapCase(hexStr)).bytes = hexResult.bytes
               /\ hexStr = <<>> => ~hexResult.threw /\ hexResult.bytes = <<>>
               /\ Len(hexStr) % 2 = 1
                     => hexResult.threw /\ hexResult.error = "Invalid hex string length"

C25_Witness ==
    /\ hexResult.called
    /\ hexStr = <<"\\", "x", "a", "F">>
    /\ hexResult.bytes = <<175>>

\* C26 (stored path inverted): for every storage path p of the bucket
\* "storage", the download step gets p from the public URL that uploadFile
\* returned for p, and from "storage/" followed by p; a file_path of neither
\* form is used as it is.
C26_ExtractInverts ==
    storagePath.called
        => /\ file_path.form \in {"publicUrl", "bucketAndPath"}
                 => storagePath.value = objectPath
           /\ (file_path.form = "asIs" /\ indexOf(file_path.value) = 0
                 /\ ~(Len(file_path.value) >= 2 /\ file_path.value[1] = "storage"))
                 => storagePath.value = file_path.value

\* the stages of the setup flow, in the order of the handler
SetupOrder == <<"encrypt_master_key", "saveUserSecrets", "onComplete">>

\* C27 (setup stages in order): in a submit of the setup form, the key
\* generation is called only when the password is not empty and equals its
\* confirmation, saveUserSecrets only after the key generation returned,
\* onComplete, which closes the modal, only after saveUserSecrets reported
\* success; after any failure the modal is open and shows the error.
C27_SetupInOrder ==
    \A tab \in Tabs :
        LET submit == setupCalls[tab]
        IN  submit.submitted
               => /\ IsPrefix(submit.calls, SetupOrder)
                  /\ Len(submit.calls) >= 1
                        => submit.valid
                  /\ Len(submit.calls) >= 2 => submit.keygen = "ok"
                  /\ Len(submit.calls) >= 3 => submit.saved /\ ~showModal[tab]
                  /\ Len(submit.calls) < 3 => showModal[tab] /\ setupError[tab] # ""

\* one tab completed the setup, and the other then failed to save its own
C27_Witness ==
    /\ setupCalls[1].calls = SetupOrder
    /\ ~showModal[1]
    /\ setupCalls[2].calls = <<"encrypt_master_key", "saveUserSecrets">>
    /\ ~setupCalls[2].saved
    /\ showModal[2]
    /\ setupError[2] # ""

\* C28 (operations end): provided every awaited call resolves or rejects, a
\* component whose loading flag is true gets it back to false, and a
\* FileDecryptionModal whose step is in progress reaches done or error.
C28_LeavesInProgress ==
    /\ \A c \in Components : handlers[c].loading ~> ~handlers[c].loading
    /\ isLoading(modal.step) ~> (modal.step \in {"done", "error"})

\* a component and the modal are in the middle of an operation
C28_Witness ==
    /\ handlers["FileDecryptor"].loading
    /\ handlers["FileDecryptor"].awaiting = Awaits("FileDecryptor")
    /\ modal.step = "decrypting-key"

\* C29 (one operation in flight): no component has more than one run of its
\* handler in progress, it has one exactly while its loading flag is true,
\* and the modal has one exactly while its step is in progress.
C29_OneInFlight ==
    /\ \A c \in Components :
          /\ handlers[c].runs <= 1
          /\ handlers[c].loading <=> handlers[c].runs = 1
    /\ attempt.runs <= 1
    /\ isLoading(modal.step) <=> attempt.runs = 1

\* an operation of each is in progress, the modal's after a failed one
C29_Witness ==
    /\ handlers["MasterKeyDeriver"].runs = 1
    /\ handlers["MasterKeyDeriver"].awaiting = 2
    /\ attempt.runs = 1
    /\ attempt.steps[1] = "error"

\* C30 (prompt exactly without a record): whenever the setup modal of a tab
\* opens or closes, it is open exactly if the user has no stored identity
\* record: it does not open for a user who has one, also when the record
\* could not be fetched, and it does not close for a user who has none.
C30_ModalIffNoRecord ==
    [][\A tab \in Tabs :
          showModal'[tab] # showModal[tab]
             => (showModal'[tab] <=> ~user_secrets'.present)]_vars

====
